---- MODULE Spec2Model ----
(***************************************************************************)
(* Model of the GCC option-space discovery of compiler_gym/envs/gcc/gcc.py *)
(* (option model, help-text parsers, fixups, version and cache handling).  *)
(*                                                                         *)
(* Text.  A Python string is a sequence of lexical tokens (TLA+ strings);  *)
(* string concatenation is \o.  A help line is the sequence of its         *)
(* whitespace-separated bits (what line.split() returns), every bit being  *)
(* such a string.  Decimal numerals are the tokens ToString(n).            *)
(***************************************************************************)
EXTENDS Integers, Sequences, FiniteSets, TLC

\* ------------------------------------------------------------------------
\* Bounds of the model.
\* ------------------------------------------------------------------------

\* Numerals that occur in help lines lie in -MaxNum .. MaxNum.
MaxNum == 20

\* Width of the shift of the synthetic upper bound; the source shifts by 31.
ShiftBits == 3

\* Number of help lines fed to the optimization-flag parser.
MaxOptLines == 3

\* Number of help lines fed to the parameter parser.
MaxParLines == 3

\* Lengths of the help texts whose parse is handed to the fixup step.
MaxFixOptLines == 2

MaxFixParLines == 1

\* Number of times the fixup step is applied in a row.
MaxFixRuns == 3

\* Number of discovery calls made one after the other.
MaxCalls == 2

\* Indices tried on an option lie in -MaxKey .. MaxKey.
MaxKey == 4

\* Number of discovery calls that run at the same time.
MaxCallers == 2

\* functools.lru_cache keeps at most maxsize results; the bare decorator of
\* the source has maxsize = 128, scaled here.
Maxsize == 2

\* Number of Gcc constructions beyond the capacity of the lru_cache.
MaxRepeats == 3

\* Benchmark sizes of the loop_tool sessions lie in 0 .. MaxSize.
MaxSize == 3

\* Loop extents of the loop_tool sessions lie in 0 .. MaxExtent.
MaxExtent == 4

\* Action indices handed to apply_action lie in -1 .. MaxAction.
MaxAction == 4

\* ------------------------------------------------------------------------
\* Token alphabets (character classes of the regular expressions).
\* ------------------------------------------------------------------------

\* Tokens made of the characters a-z only.
Lower == {"fast", "s", "foo", "bar", "loops", "a", "b", "exceptions"}

\* Tokens made of the characters a-z and '-' (with at least one '-').
Dashed ==
  {"align-", "no-", "handle-", "live-patching", "pack-struct",
   "stack-protector-all", "threadsafe-statics", "prefetch-minimum-stride",
   "max-unroll"}

\* Tokens made of letters of both cases, or letters and '_'.
Mixed == {"Yes", "x_y"}

\* int(tok) for the numeral tokens of the model.
IsDigits(tok) == \E n \in 0..MaxNum : ToString(n) = tok

IsSignedDigits(tok) == \E n \in (-MaxNum)..MaxNum : ToString(n) = tok

IntOf(tok) == CHOOSE n \in (-MaxNum)..MaxNum : ToString(n) = tok

\* [-a-z0-9]+
FlagNameTok(tok) == tok \in Lower \cup Dashed \/ IsDigits(tok)

\* [-a-z]+
AlignNameTok(tok) == tok \in Lower \cup Dashed

\* [-a-zA-Z0-9]+
ParamNameTok(tok) == tok \in Lower \cup Dashed \cup {"Yes"} \/ IsDigits(tok)

\* [-A-Za-z_\|]+
EnumBodyTok(tok) == tok \in Lower \cup Dashed \cup Mixed \cup {"|"}

\* ------------------------------------------------------------------------
\* Sequence helpers.
\* ------------------------------------------------------------------------

\* Position of the first occurrence of tok in s, 0 when there is none.
IndexOf(s, tok) ==
  IF \E i \in 1..Len(s) : s[i] = tok
    THEN CHOOSE i \in 1..Len(s) : s[i] = tok /\ \A j \in 1..(i - 1) : s[j] # tok
    ELSE 0

\* str.split("|") on a token sequence: the pieces between the bars.
RECURSIVE SplitBar(_)
SplitBar(s) ==
  LET i == IndexOf(s, "|")
  IN IF i = 0 THEN <<s>>
     ELSE <<SubSeq(s, 1, i - 1)>> \o SplitBar(SubSeq(s, i + 1, Len(s)))

\* ------------------------------------------------------------------------
\* Option model (classes GccOOption .. GccParamIntOption).
\* An option is a record  [kind, name, values, min, max, no_fno]; the
\* fields a class does not have keep the neutral value.
\* ------------------------------------------------------------------------

GccOOption(values) ==
  [kind |-> "GccOOption", name |-> <<"O">>, values |-> values,
   min |-> 0, max |-> 0, no_fno |-> FALSE]

GccFlagOption(name, no_fno) ==
  [kind |-> "GccFlagOption", name |-> name, values |-> <<>>,
   min |-> 0, max |-> 0, no_fno |-> no_fno]

GccFlagEnumOption(name, values) ==
  [kind |-> "GccFlagEnumOption", name |-> name, values |-> values,
   min |-> 0, max |-> 0, no_fno |-> FALSE]

GccFlagIntOption(name, min, max) ==
  [kind |-> "GccFlagIntOption", name |-> name, values |-> <<>>,
   min |-> min, max |-> max, no_fno |-> FALSE]

GccFlagAlignOption(name) ==
  [kind |-> "GccFlagAlignOption", name |-> name, values |-> <<>>,
   min |-> 0, max |-> 0, no_fno |-> FALSE]

GccParamEnumOption(name, values) ==
  [kind |-> "GccParamEnumOption", name |-> name, values |-> values,
   min |-> 0, max |-> 0, no_fno |-> FALSE]

GccParamIntOption(name, min, max) ==
  [kind |-> "GccParamIntOption", name |-> name, values |-> <<>>,
   min |-> min, max |-> max, no_fno |-> FALSE]

\* __len__ of every class.
OptLen(o) ==
  CASE o.kind = "GccOOption" -> Len(o.values)
    [] o.kind = "GccFlagOption" -> IF o.no_fno THEN 1 ELSE 2
    [] o.kind = "GccFlagEnumOption" -> Len(o.values)
    [] o.kind = "GccFlagIntOption" -> o.max - o.min + 1
    [] o.kind = "GccFlagAlignOption" -> 1
    [] o.kind = "GccParamEnumOption" -> Len(o.values)
    [] o.kind = "GccParamIntOption" -> o.max - o.min + 1

IndexError == <<"IndexError">>

\* Python list indexing values[key]: negative keys count from the end.
ListItem(values, key) ==
  IF 0 <= key /\ key < Len(values) THEN <<values[key + 1]>>
  ELSE IF (-Len(values)) <= key /\ key < 0 THEN <<values[Len(values) + key + 1]>>
  ELSE <<>>

\* __getitem__ of every class: the literal for index key, or IndexError.
GetItem(o, key) ==
  CASE o.kind = "GccOOption" ->
         IF ListItem(o.values, key) = <<>> THEN IndexError
         ELSE <<"-O">> \o ListItem(o.values, key)[1]
    [] o.kind = "GccFlagOption" ->
         <<"-f">> \o (IF key = 0 THEN <<>> ELSE <<"no-">>) \o o.name
    [] o.kind = "GccFlagEnumOption" ->
         IF ListItem(o.values, key) = <<>> THEN IndexError
         ELSE <<"-f">> \o o.name \o <<"=">> \o ListItem(o.values, key)[1]
    [] o.kind = "GccFlagIntOption" ->
         <<"-f">> \o o.name \o <<"=", ToString(o.min + key)>>
    [] o.kind = "GccFlagAlignOption" -> <<"-f">> \o o.name
    [] o.kind = "GccParamEnumOption" ->
         IF ListItem(o.values, key) = <<>> THEN IndexError
         ELSE <<"--param=">> \o o.name \o <<"=">> \o ListItem(o.values, key)[1]
    [] o.kind = "GccParamIntOption" ->
         <<"--param=">> \o o.name \o <<"=", ToString(o.min + key)>>

\* bool(opt) of an Option object: Python falls back on __len__, which must
\* not be negative.
Truthy(o) ==
  IF OptLen(o) < 0 THEN "ValueError"
  ELSE IF OptLen(o) = 0 THEN "false" ELSE "true"

\* The synthetic upper bound of unbounded numerics, 2 << 31 - 1 in the
\* source: Python groups it as 2 << (31 - 1).
UnboundedMax == 2 * (2 ^ (ShiftBits - 1))

\* ------------------------------------------------------------------------
\* _gcc_parse_optimize: patterns.
\* ------------------------------------------------------------------------

\* O_num_pat = "-O<number>"
O_num_pat(spec) == spec = <<"-O", "<number>">>

\* O_pat = "-O([a-z]+)"
O_pat(spec) ==
  /\ Len(spec) >= 2
  /\ spec[1] = "-O"
  /\ \A i \in 2..Len(spec) : spec[i] \in Lower

\* flag_align_eq_pat = "-f(align-[-a-z]+)="
flag_align_eq_pat(spec) ==
  /\ Len(spec) >= 4
  /\ spec[1] = "-f"
  /\ spec[2] = "align-"
  /\ \A i \in 3..(Len(spec) - 1) : AlignNameTok(spec[i])
  /\ spec[Len(spec)] = "="

\* flag_pat = "-f([-a-z0-9]+)"
flag_pat(spec) ==
  /\ Len(spec) >= 2
  /\ spec[1] = "-f"
  /\ \A i \in 2..Len(spec) : FlagNameTok(spec[i])

\* flag_enum_pat = "-f([-a-z0-9]+)=\[([-A-Za-z_\|]+)\]"
flag_enum_pat(spec) ==
  LET e == IndexOf(spec, "=[")
  IN /\ Len(spec) >= 5
     /\ spec[1] = "-f"
     /\ e >= 3
     /\ \A i \in 2..(e - 1) : FlagNameTok(spec[i])
     /\ Len(spec) >= e + 2
     /\ \A i \in (e + 1)..(Len(spec) - 1) : EnumBodyTok(spec[i])
     /\ spec[Len(spec)] = "]"

\* flag_interval_pat = "-f([-a-z0-9]+)=<([0-9]+),([0-9]+)>"
flag_interval_pat(spec) ==
  LET e == IndexOf(spec, "=<")
  IN /\ Len(spec) >= 7
     /\ spec[1] = "-f"
     /\ e >= 3
     /\ \A i \in 2..(e - 1) : FlagNameTok(spec[i])
     /\ Len(spec) = e + 4
     /\ IsDigits(spec[e + 1])
     /\ spec[e + 2] = ","
     /\ IsDigits(spec[e + 3])
     /\ spec[e + 4] = ">"

\* flag_number_pat = "-f([-a-z0-9]+)=<number>"
flag_number_pat(spec) ==
  /\ Len(spec) >= 3
  /\ spec[1] = "-f"
  /\ \A i \in 2..(Len(spec) - 1) : FlagNameTok(spec[i])
  /\ spec[Len(spec)] = "=<number>"


\* ------------------------------------------------------------------------
\* _gcc_parse_optimize: the name-keyed collection and its insertion rules.
\* A parser state is  [options, unknown, align, error]:  the dict being
\* built, the number of "Unknown ..." warnings logged, the number of
\* alignment warnings logged, and the exception that ended the parse
\* ("none" while it runs).
\* ------------------------------------------------------------------------

EmptyDict == [n \in {} |-> 0]

ParserInit == [options |-> EmptyDict, unknown |-> 0, align |-> 0, error |-> "none"]

\* options[name] = o
Put(options, name, o) ==
  [n \in (DOMAIN options) \cup {name} |-> IF n = name THEN o ELSE options[n]]

\* An exception leaves the function; the dict stays as it was.
Raise(st, e) == [st EXCEPT !.error = e]

add_gcc_o(st, value) ==
  LET name == <<"O">>
      opt == IF name \in DOMAIN st.options THEN st.options[name] ELSE GccOOption(<<>>)
  IN IF opt.kind # "GccOOption" THEN Raise(st, "AssertionError")
     ELSE [st EXCEPT !.options =
             Put(st.options, name, [opt EXCEPT !.values = Append(@, value)])]

\* add_gcc_flag as it would be if a boolean sighting always stored its entry.
add_gcc_flag_overwriting(st, name) ==
  [st EXCEPT !.options = Put(st.options, name, GccFlagOption(name, FALSE))]

add_gcc_flag(st, name) ==
  IF name \in DOMAIN st.options THEN st
  ELSE [st EXCEPT !.options = Put(st.options, name, GccFlagOption(name, FALSE))]

\* "opt = options.get(name); if opt: assert type(opt) == GccFlagOption",
\* the guard shared by the enum, int and align insertions.
OverwriteGuard(options, name) ==
  IF name \notin DOMAIN options THEN "none"
  ELSE IF Truthy(options[name]) = "ValueError" THEN "ValueError"
  ELSE IF Truthy(options[name]) = "false" THEN "none"
  ELSE IF options[name].kind = "GccFlagOption" THEN "none"
  ELSE "AssertionError"

add_gcc_flag_enum(st, name, values) ==
  IF OverwriteGuard(st.options, name) # "none"
    THEN Raise(st, OverwriteGuard(st.options, name))
    ELSE [st EXCEPT !.options = Put(st.options, name, GccFlagEnumOption(name, values))]

add_gcc_flag_int(st, name, min, max) ==
  IF OverwriteGuard(st.options, name) # "none"
    THEN Raise(st, OverwriteGuard(st.options, name))
    ELSE [st EXCEPT !.options = Put(st.options, name, GccFlagIntOption(name, min, max))]

add_gcc_flag_align(st, name) ==
  IF OverwriteGuard(st.options, name) # "none"
    THEN Raise(st, OverwriteGuard(st.options, name))
    ELSE [st EXCEPT !.options = Put(st.options, name, GccFlagAlignOption(name)),
                    !.align = @ + 1]

\* The -O<number> loop as it would be with range(3).
RECURSIVE O_num_loop_short(_, _)
O_num_loop_short(st, i) ==
  IF i >= 3 \/ st.error # "none" THEN st
  ELSE O_num_loop_short(add_gcc_o(st, <<ToString(i)>>), i + 1)

\* "for i in range(4): add_gcc_o(str(i))", from index i on.
RECURSIVE O_num_loop(_, _)
O_num_loop(st, i) ==
  IF i >= 4 \/ st.error # "none" THEN st
  ELSE O_num_loop(add_gcc_o(st, <<ToString(i)>>), i + 1)

\* The first pattern of parse_line that matches the leading bit, in the
\* order in which parse_line tries them.
OptShape(spec) ==
  IF O_num_pat(spec) THEN "O_num"
  ELSE IF O_pat(spec) THEN "O"
  ELSE IF flag_align_eq_pat(spec) THEN "align"
  ELSE IF flag_pat(spec) THEN "flag"
  ELSE IF flag_enum_pat(spec) THEN "enum"
  ELSE IF flag_interval_pat(spec) THEN "interval"
  ELSE IF flag_number_pat(spec) THEN "number"
  ELSE "unknown"

\* m.group(1) of the flag patterns: the flag name.
OptName(spec) ==
  CASE OptShape(spec) = "align" -> SubSeq(spec, 2, Len(spec) - 1)
    [] OptShape(spec) = "flag" -> Tail(spec)
    [] OptShape(spec) = "enum" -> SubSeq(spec, 2, IndexOf(spec, "=[") - 1)
    [] OptShape(spec) = "interval" -> SubSeq(spec, 2, Len(spec) - 5)
    [] OptShape(spec) = "number" -> SubSeq(spec, 2, Len(spec) - 1)
    [] OTHER -> <<"O">>

\* parse_line of _gcc_parse_optimize on one (stripped) line.
OptParseLine(st, line) ==
  IF line = <<>> THEN st
  ELSE
    LET spec == line[1]
        n == Len(spec)
    IN CASE OptShape(spec) = "O_num" -> O_num_loop(st, 0)
         [] OptShape(spec) = "O" -> add_gcc_o(st, Tail(spec))
         [] OptShape(spec) = "align" -> add_gcc_flag_align(st, OptName(spec))
         [] OptShape(spec) = "flag" -> add_gcc_flag(st, OptName(spec))
         [] OptShape(spec) = "enum" ->
              add_gcc_flag_enum(st, OptName(spec),
                                SplitBar(SubSeq(spec, IndexOf(spec, "=[") + 1, n - 1)))
         [] OptShape(spec) = "interval" ->
              add_gcc_flag_int(st, OptName(spec), IntOf(spec[n - 3]), IntOf(spec[n - 1]))
         [] OptShape(spec) = "number" ->
              add_gcc_flag_int(st, OptName(spec), 0, UnboundedMax)
         [] OTHER -> [st EXCEPT !.unknown = @ + 1]

\* "for line in out: parse_line(line.strip())": an exception ends the loop.
RECURSIVE OptParseLines(_, _)
OptParseLines(st, lines) ==
  IF lines = <<>> \/ st.error # "none" THEN st
  ELSE OptParseLines(OptParseLine(st, Head(lines)), Tail(lines))


\* ------------------------------------------------------------------------
\* _gcc_parse_params: patterns and insertion rules.
\* ------------------------------------------------------------------------

\* param_enum_pat = "--param=([-a-zA-Z0-9]+)=\[([-A-Za-z_\|]+)\]"
param_enum_pat(spec) ==
  LET e == IndexOf(spec, "=[")
  IN /\ Len(spec) >= 5
     /\ spec[1] = "--param="
     /\ e >= 3
     /\ \A i \in 2..(e - 1) : ParamNameTok(spec[i])
     /\ Len(spec) >= e + 2
     /\ \A i \in (e + 1)..(Len(spec) - 1) : EnumBodyTok(spec[i])
     /\ spec[Len(spec)] = "]"

\* param_interval_pat = "--param=([-a-zA-Z0-9]+)=<(-?[0-9]+),([0-9]+)>"
param_interval_pat(spec) ==
  LET e == IndexOf(spec, "=<")
  IN /\ Len(spec) >= 7
     /\ spec[1] = "--param="
     /\ e >= 3
     /\ \A i \in 2..(e - 1) : ParamNameTok(spec[i])
     /\ Len(spec) = e + 4
     /\ IsSignedDigits(spec[e + 1])
     /\ spec[e + 2] = ","
     /\ IsDigits(spec[e + 3])
     /\ spec[e + 4] = ">"

\* param_number_pat = "--param=([-a-zA-Z0-9]+)="
param_number_pat(spec) ==
  /\ Len(spec) >= 3
  /\ spec[1] = "--param="
  /\ \A i \in 2..(Len(spec) - 1) : ParamNameTok(spec[i])
  /\ spec[Len(spec)] = "="

\* param_old_interval_pat, matched against the whole line:
\* "([-a-zA-Z0-9]+)\s+default\s+(-?\d+)\s+minimum\s+(-?\d+)\s+maximum\s+(-?\d+)"
param_old_interval_pat(line) ==
  /\ Len(line) = 7
  /\ Len(line[1]) >= 1
  /\ \A i \in 1..Len(line[1]) : ParamNameTok(line[1][i])
  /\ line[2] = <<"default">>
  /\ Len(line[3]) = 1 /\ IsSignedDigits(line[3][1])
  /\ line[4] = <<"minimum">>
  /\ Len(line[5]) = 1 /\ IsSignedDigits(line[5][1])
  /\ line[6] = <<"maximum">>
  /\ Len(line[7]) = 1 /\ IsSignedDigits(line[7][1])

\* "opt = params.get(name); assert not opt"
AssertNotOpt(params, name) ==
  IF name \notin DOMAIN params THEN "none"
  ELSE IF Truthy(params[name]) = "ValueError" THEN "ValueError"
  ELSE IF Truthy(params[name]) = "false" THEN "none"
  ELSE "AssertionError"

add_gcc_param_enum(st, name, values) ==
  IF AssertNotOpt(st.options, name) # "none"
    THEN Raise(st, AssertNotOpt(st.options, name))
    ELSE [st EXCEPT !.options = Put(st.options, name, GccParamEnumOption(name, values))]

add_gcc_param_int(st, name, min, max) ==
  IF AssertNotOpt(st.options, name) # "none"
    THEN Raise(st, AssertNotOpt(st.options, name))
    ELSE [st EXCEPT !.options = Put(st.options, name, GccParamIntOption(name, min, max))]

\* is_int(s): int(s) does not raise.
is_int(s) == Len(s) = 1 /\ IsSignedDigits(s[1])

\* "s in values" for a list of strings.
InList(s, values) == \E i \in 1..Len(values) : values[i] = s

\* The branches of parse_line of _gcc_parse_params; each yields the new
\* parser state, or <<>> when the line falls through to the next shape.
ParamEnumBranch(st, spec, default) ==
  IF ~param_enum_pat(spec) THEN <<>>
  ELSE LET e == IndexOf(spec, "=[")
           values == SplitBar(SubSeq(spec, e + 1, Len(spec) - 1))
       IN IF ~InList(default, values) THEN <<Raise(st, "AssertionError")>>
          ELSE <<add_gcc_param_enum(st, SubSeq(spec, 2, e - 1), values)>>

ParamIntervalBranch(st, spec, default) ==
  IF ~param_interval_pat(spec) \/ ~is_int(default) THEN <<>>
  ELSE LET n == Len(spec)
           min == IntOf(spec[n - 3])
           max == IntOf(spec[n - 1])
       IN IF ~(min <= IntOf(default[1]) /\ IntOf(default[1]) <= max)
            THEN <<Raise(st, "AssertionError")>>
            ELSE <<add_gcc_param_int(st, SubSeq(spec, 2, n - 5), min, max)>>

ParamNumberBranch(st, spec, default) ==
  IF ~param_number_pat(spec) \/ ~is_int(default) THEN <<>>
  ELSE LET dflt == IntOf(default[1])
           min == IF dflt >= 0 THEN 0 ELSE dflt
       IN <<add_gcc_param_int(st, SubSeq(spec, 2, Len(spec) - 1), min, UnboundedMax)>>

\* The legacy branch as it would be with the groups of the default and of
\* the minimum taken in the wrong order.
ParamOldBranch_swapped(st, line) ==
  IF ~param_old_interval_pat(line) THEN <<>>
  ELSE LET default == IntOf(line[5][1])
           min == IntOf(line[3][1])
           max == IntOf(line[7][1])
       IN IF min <= default /\ default <= max
            THEN <<add_gcc_param_int(st, line[1], min, max)>>
            ELSE <<>>

ParamOldBranch(st, line) ==
  IF ~param_old_interval_pat(line) THEN <<>>
  ELSE LET default == IntOf(line[3][1])
           min == IntOf(line[5][1])
           max == IntOf(line[7][1])
       IN IF min <= default /\ default <= max
            THEN <<add_gcc_param_int(st, line[1], min, max)>>
            ELSE <<>>

\* parse_line as it would be if a line of no known shape raised.
ParParseLine_raising(st, line) ==
  IF Len(line) <= 1 THEN st
  ELSE
    LET spec == line[1]
        default == line[2]
    IN IF ParamEnumBranch(st, spec, default) # <<>>
         THEN ParamEnumBranch(st, spec, default)[1]
       ELSE IF ParamIntervalBranch(st, spec, default) # <<>>
         THEN ParamIntervalBranch(st, spec, default)[1]
       ELSE IF ParamNumberBranch(st, spec, default) # <<>>
         THEN ParamNumberBranch(st, spec, default)[1]
       ELSE IF ParamOldBranch(st, line) # <<>>
         THEN ParamOldBranch(st, line)[1]
       ELSE Raise(st, "ValueError")

\* parse_line of _gcc_parse_params on one (stripped) line.
ParParseLine(st, line) ==
  IF Len(line) <= 1 THEN st
  ELSE
    LET spec == line[1]
        default == line[2]
    IN IF ParamEnumBranch(st, spec, default) # <<>>
         THEN ParamEnumBranch(st, spec, default)[1]
       ELSE IF ParamIntervalBranch(st, spec, default) # <<>>
         THEN ParamIntervalBranch(st, spec, default)[1]
       ELSE IF ParamNumberBranch(st, spec, default) # <<>>
         THEN ParamNumberBranch(st, spec, default)[1]
       ELSE IF ParamOldBranch(st, line) # <<>>
         THEN ParamOldBranch(st, line)[1]
       ELSE [st EXCEPT !.unknown = @ + 1]

RECURSIVE ParParseLines(_, _)
ParParseLines(st, lines) ==
  IF lines = <<>> \/ st.error # "none" THEN st
  ELSE ParParseLines(ParParseLine(st, Head(lines)), Tail(lines))

\* ------------------------------------------------------------------------
\* "sorted(list(options.items()))" and the projection on the values.
\* ------------------------------------------------------------------------

\* The option names of the model in the order of Python's string comparison.
NameOrder ==
  << <<"O">>, <<"align-", "loops">>, <<"bar">>, <<"exceptions">>, <<"foo">>,
     <<"handle-", "exceptions">>, <<"live-patching">>, <<"max-unroll">>,
     <<"no-", "threadsafe-statics">>, <<"pack-struct">>,
     <<"prefetch-minimum-stride">>, <<"stack-protector-all">>,
     <<"threadsafe-statics">> >>

Rank(name) == CHOOSE i \in 1..Len(NameOrder) : NameOrder[i] = name

RECURSIVE SortedValues(_)
SortedValues(options) ==
  IF DOMAIN options = {} THEN <<>>
  ELSE LET first == CHOOSE n \in DOMAIN options :
                      \A m \in DOMAIN options : Rank(n) <= Rank(m)
       IN <<options[first]>>
          \o SortedValues([n \in (DOMAIN options) \ {first} |-> options[n]])


\* ------------------------------------------------------------------------
\* _fix_options.
\* ------------------------------------------------------------------------

keep(option) ==
  ~(option.kind = "GccFlagEnumOption" /\ option.name = <<"live-patching">>)

\* "[opt for opt in options if keep(opt)]"
RECURSIVE KeepFilter(_)
KeepFilter(options) ==
  IF options = <<>> THEN <<>>
  ELSE (IF keep(Head(options)) THEN <<Head(options)>> ELSE <<>>)
       \o KeepFilter(Tail(options))

\* The three corrections of a GccFlagOption, applied one after the other.
FixFlag(option) ==
  LET renamed == IF option.name = <<"handle-", "exceptions">>
                   THEN [option EXCEPT !.name = <<"exceptions">>] ELSE option
      marked == IF renamed.name \in {<<"stack-protector-all">>,
                                     <<"stack-protector-explicit">>,
                                     <<"stack-protector-strong">>}
                  THEN [renamed EXCEPT !.no_fno = TRUE] ELSE renamed
  IN IF marked.name = <<"no-", "threadsafe-statics">>
       THEN [marked EXCEPT !.name = <<"threadsafe-statics">>] ELSE marked

\* The loop body as it would be if the lower bound were raised by one
\* instead of being set to 0.
FixOne_raising(option) ==
  CASE option.kind = "GccParamIntOption" ->
         IF option.name \in {<<"logical-op-non-short-circuit">>,
                             <<"prefetch-minimum-stride">>,
                             <<"sched-autopref-queue-depth">>,
                             <<"vect-max-peeling-for-alignment">>}
           THEN [option EXCEPT !.min = @ + 1] ELSE option
    [] option.kind = "GccFlagOption" -> FixFlag(option)
    [] option.kind = "GccFlagIntOption" ->
         IF option.name = <<"pack-struct">>
           THEN GccFlagEnumOption(<<"pack-struct">>,
                  [j \in 1..5 |-> <<ToString(2 ^ (j - 1))>>])
           ELSE option
    [] OTHER -> option

\* The body of the loop over the kept options.
FixOne(option) ==
  CASE option.kind = "GccParamIntOption" ->
         IF option.name \in {<<"logical-op-non-short-circuit">>,
                             <<"prefetch-minimum-stride">>,
                             <<"sched-autopref-queue-depth">>,
                             <<"vect-max-peeling-for-alignment">>}
           THEN [option EXCEPT !.min = 0] ELSE option
    [] option.kind = "GccFlagOption" -> FixFlag(option)
    [] option.kind = "GccFlagIntOption" ->
         IF option.name = <<"pack-struct">>
           THEN GccFlagEnumOption(<<"pack-struct">>,
                  [j \in 1..5 |-> <<ToString(2 ^ (j - 1))>>])
           ELSE option
    [] OTHER -> option

_fix_options(options) ==
  LET kept == KeepFilter(options)
  IN [i \in 1..Len(kept) |-> FixOne(kept[i])]

\* ------------------------------------------------------------------------
\* Help lines of the model.
\* ------------------------------------------------------------------------

OptLines ==
  { << <<"-O", "<number>">> >>,
    << <<"-O", "fast">> >>,
    << <<"-f", "foo">>, <<"[enabled]">> >>,
    << <<"-f", "foo", "=[", "a", "|", "b", "]">> >>,
    << <<"-f", "foo", "=<", "1", ",", "3", ">">> >>,
    << <<"-f", "foo", "=<", "3", ",", "2", ">">> >>,
    << <<"-f", "foo", "=<", "3", ",", "1", ">">> >>,
    << <<"-f", "foo", "=<number>">> >>,
    << <<"-f", "align-", "loops">>, <<"[disabled]">> >>,
    << <<"-f", "align-", "loops", "=">> >>,
    << <<"-f", "align-", "loops", "=<", "3", ",", "2", ">">> >>,
    << <<"-f", "live-patching", "=[", "a", "|", "b", "]">> >>,
    << <<"-f", "live-patching">> >>,
    << <<"-f", "pack-struct", "=<number>">> >>,
    << <<"-f", "handle-", "exceptions">> >>,
    << <<"-f", "no-", "threadsafe-statics">> >>,
    << <<"-f", "stack-protector-all">> >>,
    << <<"-W", "all">> >>,
    << >> }

ParLines ==
  { << <<"--param=", "max-unroll", "=<", "0", ",", "10", ">">>, <<"5">> >>,
    << <<"--param=", "max-unroll", "=<", "0", ",", "10", ">">>, <<"11">> >>,
    << <<"--param=", "max-unroll", "=<", "0", ",", "10", ">">>, <<"a">> >>,
    << <<"--param=", "prefetch-minimum-stride", "=<", "-1", ",", "10", ">">>, <<"-1">> >>,
    << <<"--param=", "foo", "=">>, <<"4">> >>,
    << <<"--param=", "foo", "=">>, <<"17">> >>,
    << <<"--param=", "foo", "=">>, <<"-2">> >>,
    << <<"--param=", "foo", "=">> >>,
    << <<"--param=", "bar", "=[", "a", "|", "b", "]">>, <<"a">> >>,
    << <<"--param=", "bar", "=[", "a", "|", "b", "]">>, <<"Yes">> >>,
    << <<"max-unroll">>, <<"default">>, <<"5">>, <<"minimum">>, <<"0">>,
       <<"maximum">>, <<"10">> >>,
    << <<"max-unroll">>, <<"default">>, <<"20">>, <<"minimum">>, <<"0">>,
       <<"maximum">>, <<"10">> >>,
    << <<"foo">>, <<"default">>, <<"4">>, <<"minimum">>, <<"-1">>,
       <<"maximum">>, <<"8">> >>,
    << <<"foo">>, <<"bar">> >>,
    << <<"x_y">> >>,
    << >> }

\* All texts of at most k lines drawn from pool.
Texts(pool, k) == UNION {[1..n -> pool] : n \in 0..k}

\* ------------------------------------------------------------------------
\* The Executor (class Gcc).  An executor is identified by its bin string;
\* what the compiler process does when invoked is an input of the model:
\* it exits with status 0 and an output, exits with a non-zero status,
\* cannot be started, or outlives the timeout.
\* ------------------------------------------------------------------------

Gccs == { <<"/usr/bin/gcc">>, <<"docker:", "gcc:11.2.0">> }

ProcOutcomes == {"exit0", "nonzero", "missing", "timeout"}

\* "self.bin.startswith('docker:')" in Gcc.__init__
IsDocker(bin) == bin[1] = "docker:"

\* The result of a call: a value, or the exception it raised.
Value(v) == [exc |-> "none", value |-> v]

Raised(e) == [exc |-> e, value |-> <<>>]

_subprocess_run(outcome, output) ==
  CASE outcome = "exit0" -> Value(output)
    [] outcome = "nonzero" -> Raised("ServiceError")
    [] outcome = "missing" -> Raised("ServiceInitError")
    [] outcome = "timeout" -> Raised("TimeoutExpired")

\* _docker_run with join_docker_container; a container that cannot be
\* created raises the docker library's own error.
_docker_run(outcome, output) ==
  CASE outcome = "exit0" -> Value(output)
    [] outcome = "nonzero" -> Raised("ServiceError")
    [] outcome = "missing" -> Raised("DockerException")
    [] outcome = "timeout" -> Raised("TimeoutError")

\* Gcc.__call__
GccCall(bin, outcome, output) ==
  IF IsDocker(bin) THEN _docker_run(outcome, output)
  ELSE _subprocess_run(outcome, output)

\* The exception classes that derive from subprocess.SubprocessError.
SubprocessErrors == {"TimeoutExpired", "CalledProcessError"}

\* ------------------------------------------------------------------------
\* _gcc_get_version and _version_hash.  A version string is a sequence of
\* characters; the output of the version query is a sequence of lines.
\* ------------------------------------------------------------------------

None == <<"None">>

\* '"gcc" in version'
HasGcc(version) ==
  \E i \in 1..(Len(version) - 2) : SubSeq(version, i, i + 2) = <<"g", "c", "c">>

_gcc_get_version(bin, outcome, output) ==
  LET r == GccCall(bin, outcome, output)
      body == IF r.exc # "none" THEN r
              ELSE IF ~HasGcc(r.value[1]) THEN Raised("ServiceError")
              ELSE Value(r.value[1])
  IN IF body.exc \in SubprocessErrors THEN Value(None) ELSE body

\* ord(c) for the characters of the model's version strings.
Ord(c) ==
  CASE c = "g" -> 103 [] c = "c" -> 99 [] c = "A" -> 65 [] c = "a" -> 97
    [] c = "B" -> 66 [] c = "9" -> 57 [] c = "l" -> 108 [] c = "n" -> 110

\* "h = ord(c) + 31 * h" over the characters, from h.
RECURSIVE HashFrom(_, _)
HashFrom(h, version) ==
  IF version = <<>> THEN h
  ELSE HashFrom(Ord(Head(version)) + 31 * h, Tail(version))

\* The hash as it would be if every version had the same cache key.
_version_hash_constant(version) == ToString(0)

\* str(h % (2 << 64)); every version of the model hashes below 2^31, which
\* the reduction modulo 2^65 leaves as it is.
_version_hash(version) == ToString(HashFrom(0, version))

\* ------------------------------------------------------------------------
\* The cache: a dict from the version hash to the content of spec.pkl.
\* pickle.dump writes a Spec object with all its fields; pickle.load reads
\* it back or raises.
\* ------------------------------------------------------------------------

GccSpec(gcc, version, options) ==
  [gcc |-> gcc, version |-> version, options |-> options]

NoSpec == GccSpec(<<>>, <<>>, <<>>)

PickleDump(spec) == <<"GccSpec", spec.gcc, spec.version, spec.options>>

\* A file cut short, a file that is no pickle, and a pickle of a class the
\* program no longer has.
PickleLoad(bytes) ==
  IF bytes = <<>> THEN Raised("EOFError")
  ELSE IF bytes[1] = "GccSpec"
    THEN IF Len(bytes) = 4 THEN Value(GccSpec(bytes[2], bytes[3], bytes[4]))
         ELSE Raised("EOFError")
  ELSE IF bytes[1] = "OldGccSpec" THEN Raised("AttributeError")
  ELSE Raised("UnpicklingError")

\* GccSpec.size: the product of len(option) + 1 from sz on.
RECURSIVE SizeFrom(_, _)
SizeFrom(sz, options) ==
  IF options = <<>> THEN sz
  ELSE SizeFrom(sz * (OptLen(Head(options)) + 1), Tail(options))

size(spec) == SizeFrom(1, spec.options)

\* len(option) raises ValueError when __len__ returns a negative number.
SizeRaises(spec) ==
  \E i \in 1..Len(spec.options) : OptLen(spec.options[i]) < 0

\* The property as its caller sees it: the product, or the exception that
\* len(option) raised.
GccSpec_size(spec) ==
  IF SizeRaises(spec) THEN Raised("ValueError") ELSE Value(size(spec))

\* ------------------------------------------------------------------------
\* _get_spec, one step per blocking operation.  A call is the record
\*   pc        where the call stands
\*   gcc       the executor it was made with
\*   vquery    what the version query did: <<outcome, output>>
\*   version   the version string (None before it is known)
\*   optim     the list _gcc_parse_optimize returned
\*   spec      the Spec being returned
\*   result    "none" while running, then "spec", "None" or "raise"
\*   exc       the exception raised to the caller
\*   invoked   the executor invocations issued, in order
\*   touched   what the call did with the cache
\*   warned    number of "Unable to read spec" warnings
\*   parsed    <<options>> once both help streams are parsed and fixed up
\*   cache0    the cache when the call started
\* ------------------------------------------------------------------------

CallIdle ==
  [pc |-> "idle", gcc |-> <<>>, vquery |-> <<>>, version |-> None, optim |-> <<>>,
   spec |-> NoSpec, result |-> "none", exc |-> "none", invoked |-> <<>>,
   touched |-> {}, warned |-> 0, parsed |-> <<>>, cache0 |-> EmptyDict]

ReturnNone(c) == [c EXCEPT !.pc = "done", !.result = "None"]

ReturnSpec(c, spec) == [c EXCEPT !.pc = "done", !.result = "spec", !.spec = spec]

RaiseOut(c, e) == [c EXCEPT !.pc = "done", !.result = "raise", !.exc = e]

\* "logging.debug(... round(math.log(spec.size))); return spec"
LogSizeAndReturn(c, spec) ==
  IF SizeRaises(spec) THEN RaiseOut([c EXCEPT !.spec = spec], "ValueError")
  ELSE ReturnSpec(c, spec)

\* "version = _gcc_get_version(gcc); if not version: return None"
VersionStep(c, outcome, output) ==
  LET r == _gcc_get_version(c.gcc, outcome, output)
      c1 == [c EXCEPT !.invoked = Append(@, "--version"),
                      !.vquery = <<outcome, output>>]
  IN IF r.exc # "none" THEN RaiseOut(c1, r.exc)
     ELSE IF r.value = None \/ r.value = <<>> THEN ReturnNone(c1)
     ELSE [c1 EXCEPT !.pc = "probe", !.version = r.value]

\* The probe as it would be if the cache file were never read.
ProbeStep_never_reading(c, files) ==
  [c EXCEPT !.pc = "optimize", !.touched = @ \cup {"isfile"}]

\* The probe as it would be without "spec.gcc = gcc".
ProbeStep_not_rebinding(c, files) ==
  LET key == _version_hash(c.version)
      c1 == [c EXCEPT !.touched = @ \cup {"isfile"}]
  IN IF key \notin DOMAIN files THEN [c1 EXCEPT !.pc = "optimize"]
     ELSE LET r == PickleLoad(files[key])
              c2 == [c1 EXCEPT !.touched = @ \cup {"read"}]
          IN IF r.exc = "none" THEN LogSizeAndReturn(c2, r.value)
             ELSE IF r.exc \in {"UnpicklingError", "EOFError"}
               THEN [c2 EXCEPT !.pc = "optimize", !.warned = @ + 1]
             ELSE RaiseOut(c2, r.exc)

\* "if os.path.isfile(spec_path): try: pickle.load ... except ..."
ProbeStep(c, files) ==
  LET key == _version_hash(c.version)
      c1 == [c EXCEPT !.touched = @ \cup {"isfile"}]
  IN IF key \notin DOMAIN files THEN [c1 EXCEPT !.pc = "optimize"]
     ELSE LET r == PickleLoad(files[key])
              c2 == [c1 EXCEPT !.touched = @ \cup {"read"}]
          IN IF r.exc = "none"
               THEN LogSizeAndReturn(c2, [r.value EXCEPT !.gcc = c.gcc])
             ELSE IF r.exc \in {"UnpicklingError", "EOFError"}
               THEN [c2 EXCEPT !.pc = "optimize", !.warned = @ + 1]
             ELSE RaiseOut(c2, r.exc)

\* The step as it would be if the parameter listing were requested first.
OptimizeStep_params_first(c, outcome, output) ==
  LET r == GccCall(c.gcc, outcome, output)
      c1 == [c EXCEPT !.invoked = Append(@, "--help=param")]
      st == OptParseLines(ParserInit, Tail(r.value))
  IN IF r.exc # "none" THEN RaiseOut(c1, r.exc)
     ELSE IF st.error # "none" THEN RaiseOut(c1, st.error)
     ELSE [c1 EXCEPT !.pc = "params", !.optim = SortedValues(st.options)]

\* "optim_opts = _gcc_parse_optimize(gcc)"
OptimizeStep(c, outcome, output) ==
  LET r == GccCall(c.gcc, outcome, output)
      c1 == [c EXCEPT !.invoked = Append(@, "--help=optimize")]
      st == OptParseLines(ParserInit, Tail(r.value))
  IN IF r.exc # "none" THEN RaiseOut(c1, r.exc)
     ELSE IF st.error # "none" THEN RaiseOut(c1, st.error)
     ELSE [c1 EXCEPT !.pc = "params", !.optim = SortedValues(st.options)]

\* The step as it would be without the test for an empty option list.
ParamsStep_keeping_empty(c, outcome, output) ==
  LET r == GccCall(c.gcc, outcome, output)
      c1 == [c EXCEPT !.invoked = Append(@, "--help=param")]
      st == ParParseLines(ParserInit, Tail(r.value))
      options == _fix_options(c.optim \o SortedValues(st.options))
      c2 == [c1 EXCEPT !.parsed = <<options>>]
  IN IF r.exc # "none" THEN RaiseOut(c1, r.exc)
     ELSE IF st.error # "none" THEN RaiseOut(c1, st.error)
     ELSE [c2 EXCEPT !.pc = "write", !.spec = GccSpec(c.gcc, c.version, options)]

\* "param_opts = _gcc_parse_params(gcc)", the fixup, the Spec and the
\* test for an empty option list.
ParamsStep(c, outcome, output) ==
  LET r == GccCall(c.gcc, outcome, output)
      c1 == [c EXCEPT !.invoked = Append(@, "--help=param")]
      st == ParParseLines(ParserInit, Tail(r.value))
      options == _fix_options(c.optim \o SortedValues(st.options))
      c2 == [c1 EXCEPT !.parsed = <<options>>]
  IN IF r.exc # "none" THEN RaiseOut(c1, r.exc)
     ELSE IF st.error # "none" THEN RaiseOut(c1, st.error)
     ELSE IF options = <<>> THEN ReturnNone(c2)
     ELSE [c2 EXCEPT !.pc = "write", !.spec = GccSpec(c.gcc, c.version, options)]

\* "with atomic_file_write(spec_path, fileobj=True) as f: pickle.dump(spec, f)"
WriteFiles(c, files) == Put(files, _version_hash(c.version), PickleDump(c.spec))

WriteStep(c) == LogSizeAndReturn([c EXCEPT !.touched = @ \cup {"write"}], c.spec)

\* ------------------------------------------------------------------------
\* Outputs of the compiler in the model.
\* ------------------------------------------------------------------------

VersionOutputs ==
  { << <<"g", "c", "c", "A", "a">>, <<"c">> >>,
    << <<"g", "c", "c", "B", "B">> >>,
    << <<"g", "c", "c", "9">> >>,
    << <<"c", "l", "a", "n", "g">> >>,
    << <<>> >> }

Header == << <<"The">>, <<"following">>, <<"options">> >>

OptHelpTexts ==
  { <<Header>>,
    <<Header, << <<"-O", "<number>">> >>, << <<"-O", "fast">> >> >>,
    <<Header, << <<"-f", "foo">>, <<"[enabled]">> >>,
              << <<"-f", "foo", "=[", "a", "|", "b", "]">> >>,
              << <<"-f", "handle-", "exceptions">> >> >>,
    <<Header, << <<"-f", "live-patching", "=[", "a", "|", "b", "]">> >> >>,
    <<Header, << <<"-f", "foo", "=[", "a", "|", "b", "]">> >>,
              << <<"-f", "foo", "=<number>">> >> >> }

ParHelpTexts ==
  { <<Header>>,
    <<Header,
      << <<"--param=", "max-unroll", "=<", "0", ",", "10", ">">>, <<"5">> >>,
      << <<"--param=", "prefetch-minimum-stride", "=<", "-1", ",", "10", ">">>,
         <<"-1">> >> >>,
    <<Header,
      << <<"--param=", "max-unroll", "=<", "0", ",", "10", ">">>, <<"11">> >> >> }

\* ------------------------------------------------------------------------
\* State.
\* ------------------------------------------------------------------------

VARIABLES
  optIn,     \* lines the optimization-flag parser has consumed
  optSt,     \* its parser state
  optOut,    \* <<list>> once _gcc_parse_optimize has returned, <<>> before
  parIn,     \* lines the parameter parser has consumed
  parSt,     \* its parser state
  parOut,    \* <<list>> once _gcc_parse_params has returned, <<>> before
  fixHist,   \* an option list followed by the results of successive fixups
  cache,     \* the cache directory: version hash -> content of spec.pkl
  call,      \* the discovery call in progress
  ncalls,    \* number of discovery calls started
  persisted, \* version hash -> the Spec last handed to pickle.dump for it
  use,       \* a Spec's option list in the hands of a user: size, indexing
  procs,     \* the discovery calls that run at the same time, by caller
  tmpFiles,  \* the temporary files of the cache writes in progress, by caller
  memo,      \* the lru_cache tables of the docker helpers, and their calls
  session    \* the loop_tool compilation session

parseVars == <<optIn, optSt, optOut, parIn, parSt, parOut>>

discVars == <<cache, call, ncalls, persisted>>

useVars == <<use>>

raceVars == <<procs, tmpFiles>>

memoVars == <<memo>>

ltVars == <<session>>

vars ==
  <<optIn, optSt, optOut, parIn, parSt, parOut, fixHist, cache, call, ncalls,
    persisted, use, procs, tmpFiles, memo, session>>

OptIdle == optIn = <<>> /\ optSt = ParserInit /\ optOut = <<>>

ParIdle == parIn = <<>> /\ parSt = ParserInit /\ parOut = <<>>

FixIdle == fixHist = <<>>

DiscIdle ==
  cache = EmptyDict /\ call = CallIdle /\ ncalls = 0 /\ persisted = EmptyDict

UseIdle == use = <<>>

RaceIdle == procs = <<>> /\ tmpFiles = EmptyDict

MemoIdle == memo = <<>>

LtIdle == session = <<>>

\* ------------------------------------------------------------------------
\* The optimization-flag parser, one help line per step.
\* ------------------------------------------------------------------------

OptLine(line) ==
  /\ optOut = <<>>
  /\ optSt.error = "none"
  /\ Len(optIn) < MaxOptLines
  /\ optIn' = Append(optIn, line)
  /\ optSt' = OptParseLine(optSt, line)
  /\ UNCHANGED <<optOut, parIn, parSt, parOut, fixHist, discVars, useVars, raceVars, memoVars, ltVars>>

OptReturn ==
  /\ optOut = <<>>
  /\ optSt.error = "none"
  /\ optOut' = <<SortedValues(optSt.options)>>
  /\ UNCHANGED <<optIn, optSt, parIn, parSt, parOut, fixHist, discVars, useVars, raceVars, memoVars, ltVars>>

InitOpt == OptIdle /\ ParIdle /\ FixIdle /\ DiscIdle /\ UseIdle /\ RaceIdle
  /\ MemoIdle /\ LtIdle

NextOpt == (\E line \in OptLines : OptLine(line)) \/ OptReturn

SpecOpt == InitOpt /\ [][NextOpt]_vars

\* ------------------------------------------------------------------------
\* The parameter parser, one help line per step.
\* ------------------------------------------------------------------------

ParLine(line) ==
  /\ parOut = <<>>
  /\ parSt.error = "none"
  /\ Len(parIn) < MaxParLines
  /\ parIn' = Append(parIn, line)
  /\ parSt' = ParParseLine(parSt, line)
  /\ UNCHANGED <<optIn, optSt, optOut, parOut, fixHist, discVars, useVars, raceVars, memoVars, ltVars>>

ParReturn ==
  /\ parOut = <<>>
  /\ parSt.error = "none"
  /\ parOut' = <<SortedValues(parSt.options)>>
  /\ UNCHANGED <<optIn, optSt, optOut, parIn, parSt, fixHist, discVars, useVars, raceVars, memoVars, ltVars>>

InitPar == OptIdle /\ ParIdle /\ FixIdle /\ DiscIdle /\ UseIdle /\ RaceIdle
  /\ MemoIdle /\ LtIdle

NextPar == (\E line \in ParLines : ParLine(line)) \/ ParReturn

SpecPar == InitPar /\ [][NextPar]_vars

\* Either parser at work on its help listing.
NextParse == (ParIdle /\ NextOpt) \/ (OptIdle /\ NextPar)

SpecParse == InitOpt /\ [][NextParse]_vars

\* ------------------------------------------------------------------------
\* The fixup step, applied to "optim_opts + param_opts" and then again to
\* its own result.
\* ------------------------------------------------------------------------

\* _gcc_parse_optimize / _gcc_parse_params on the lines after the header:
\* <<list>>, or <<>> when the parse raised.
ParsedOpt(lines) ==
  LET st == OptParseLines(ParserInit, lines)
  IN IF st.error = "none" THEN <<SortedValues(st.options)>> ELSE <<>>

ParsedPar(lines) ==
  LET st == ParParseLines(ParserInit, lines)
  IN IF st.error = "none" THEN <<SortedValues(st.options)>> ELSE <<>>

\* The lists either parser can return for a help text of at most k lines.
OptResults(k) ==
  {ParsedOpt(t)[1] : t \in {x \in Texts(OptLines, k) : ParsedOpt(x) # <<>>}}

ParResults(k) ==
  {ParsedPar(t)[1] : t \in {x \in Texts(ParLines, k) : ParsedPar(x) # <<>>}}

\* "optim_opts + param_opts"
FixInputs(kOpt, kPar) ==
  {pair[1] \o pair[2] : pair \in OptResults(kOpt) \X ParResults(kPar)}

ApplyFix ==
  /\ fixHist # <<>>
  /\ Len(fixHist) <= MaxFixRuns
  /\ fixHist' = Append(fixHist, _fix_options(fixHist[Len(fixHist)]))
  /\ UNCHANGED <<parseVars, discVars, useVars, raceVars, memoVars, ltVars>>

InitFix ==
  /\ OptIdle
  /\ ParIdle
  /\ DiscIdle
  /\ UseIdle
  /\ RaceIdle
  /\ MemoIdle /\ LtIdle
  /\ fixHist \in {<<l>> : l \in FixInputs(MaxFixOptLines, MaxFixParLines)}

NextFix == ApplyFix

SpecFix == InitFix /\ [][NextFix]_vars

\* ------------------------------------------------------------------------
\* Discovery: _get_spec called again and again, one call at a time.
\* ------------------------------------------------------------------------

Start(gcc) ==
  /\ call.pc \in {"idle", "done"}
  /\ ncalls < MaxCalls
  /\ call' = [CallIdle EXCEPT !.pc = "version", !.gcc = gcc, !.cache0 = cache]
  /\ ncalls' = ncalls + 1
  /\ UNCHANGED <<parseVars, fixHist, cache, persisted, useVars, raceVars, memoVars, ltVars>>

GetVersion(outcome, output) ==
  /\ call.pc = "version"
  /\ call' = VersionStep(call, outcome, output)
  /\ UNCHANGED <<parseVars, fixHist, cache, ncalls, persisted, useVars, raceVars, memoVars, ltVars>>

Probe ==
  /\ call.pc = "probe"
  /\ call' = ProbeStep(call, cache)
  /\ UNCHANGED <<parseVars, fixHist, cache, ncalls, persisted, useVars, raceVars, memoVars, ltVars>>

ParseOptimize(outcome, output) ==
  /\ call.pc = "optimize"
  /\ call' = OptimizeStep(call, outcome, output)
  /\ UNCHANGED <<parseVars, fixHist, cache, ncalls, persisted, useVars, raceVars, memoVars, ltVars>>

ParseParams(outcome, output) ==
  /\ call.pc = "params"
  /\ call' = ParamsStep(call, outcome, output)
  /\ UNCHANGED <<parseVars, fixHist, cache, ncalls, persisted, useVars, raceVars, memoVars, ltVars>>

WriteCache ==
  /\ call.pc = "write"
  /\ cache' = WriteFiles(call, cache)
  /\ call' = WriteStep(call)
  /\ persisted' = Put(persisted, _version_hash(call.version), call.spec)
  /\ UNCHANGED <<parseVars, fixHist, ncalls, useVars, raceVars, memoVars, ltVars>>

NextDisc ==
  \/ \E gcc \in Gccs : Start(gcc)
  \/ \E outcome \in ProcOutcomes, output \in VersionOutputs :
       GetVersion(outcome, output)
  \/ Probe
  \/ \E outcome \in ProcOutcomes, output \in OptHelpTexts :
       ParseOptimize(outcome, output)
  \/ \E outcome \in ProcOutcomes, output \in ParHelpTexts :
       ParseParams(outcome, output)
  \/ WriteCache

\* Calls on an initially empty cache.
Init == OptIdle /\ ParIdle /\ FixIdle /\ DiscIdle /\ UseIdle /\ RaceIdle
  /\ MemoIdle /\ LtIdle

Spec == Init /\ [][NextDisc]_vars

\* Calls on a cache directory that holds one file no discovery call wrote:
\* an empty file, a pickle cut short, a file that is no pickle, or a pickle
\* of an older class.
BadFiles ==
  { <<>>,
    <<"GccSpec", <<"/usr/bin/gcc">> >>,
    <<"garbage">>,
    <<"OldGccSpec", <<"/usr/bin/gcc">>, <<"g", "c", "c", "9">>, <<>> >> }

GccVersions == {out[1] : out \in {o \in VersionOutputs : HasGcc(o[1])}}

InitDisk ==
  /\ OptIdle /\ ParIdle /\ FixIdle /\ UseIdle /\ RaceIdle
  /\ MemoIdle /\ LtIdle
  /\ call = CallIdle
  /\ ncalls = 0
  /\ persisted = EmptyDict
  /\ \E version \in GccVersions, bytes \in BadFiles :
       cache = Put(EmptyDict, _version_hash(version), bytes)

SpecDisk == InitDisk /\ [][NextDisc]_vars

\* ------------------------------------------------------------------------
\* Discovery calls of several callers at the same time, for one compiler
\* release reached through any executor: the first version query pins the
\* version, and the help listings are those of that release.  Every caller
\* runs the steps of _get_spec; the cache directory is what they share.
\* ------------------------------------------------------------------------

Callers == 1..MaxCallers

\* What the release of each version prints for --help=optimize -Q and for
\* --help=param -Q.
OptHelpOf(version) ==
  CASE version = <<"g", "c", "c", "9">> ->
         <<Header, << <<"-f", "foo">>, <<"[enabled]">> >>,
                   << <<"-f", "foo", "=[", "a", "|", "b", "]">> >>,
                   << <<"-f", "handle-", "exceptions">> >> >>
    [] version = <<"g", "c", "c", "A", "a">> ->
         <<Header, << <<"-O", "<number>">> >>, << <<"-O", "fast">> >> >>
    [] OTHER ->
         <<Header, << <<"-f", "live-patching", "=[", "a", "|", "b", "]">> >> >>

ParHelpOf(version) ==
  CASE version = <<"g", "c", "c", "9">> ->
         <<Header,
           << <<"--param=", "max-unroll", "=<", "0", ",", "10", ">">>, <<"5">> >>,
           << <<"--param=", "prefetch-minimum-stride", "=<", "-1", ",", "10", ">">>,
              <<"-1">> >> >>
    [] OTHER -> <<Header>>

\* atomic_file_write, entering the context: a temporary file of the
\* caller's own is created, empty.
atomic_file_write_enter(tmp, p) == Put(tmp, p, <<>>)

\* atomic_file_write, leaving the context: the temporary file is renamed
\* to the path, replacing in one step whatever the path held.
atomic_file_write_exit(files, tmp, p, key) == Put(files, key, tmp[p])

\* The next write() of pickle.dump: the pickle up to two items further.
DumpNext(written, bytes) ==
  SubSeq(bytes, 1, IF Len(written) + 2 < Len(bytes) THEN Len(written) + 2
                   ELSE Len(bytes))

\* The write as it would be with the file object opened on spec_path.
DumpTo_spec_path(files, tmp, p, key, content) ==
  [files |-> Put(files, key, content), tmp |-> tmp]

\* "with atomic_file_write(spec_path, fileobj=True) as f:
\*  pickle.dump(spec, f)": a write() on f, after which f holds content.
DumpTo(files, tmp, p, key, content) ==
  [files |-> files, tmp |-> Put(tmp, p, content)]

RaceVersion(p, outcome, output) ==
  /\ procs[p].pc = "version"
  /\ \A q \in Callers : procs[q].version \in {None, output[1]}
  /\ procs' = [procs EXCEPT ![p] = VersionStep(@, outcome, output)]
  /\ UNCHANGED <<parseVars, fixHist, discVars, useVars, tmpFiles, memoVars, ltVars>>

RaceProbe(p) ==
  /\ procs[p].pc = "probe"
  /\ procs' = [procs EXCEPT ![p] = ProbeStep(@, cache)]
  /\ UNCHANGED <<parseVars, fixHist, discVars, useVars, tmpFiles, memoVars, ltVars>>

RaceOptimize(p, outcome) ==
  /\ procs[p].pc = "optimize"
  /\ procs' = [procs EXCEPT
                 ![p] = OptimizeStep(@, outcome, OptHelpOf(procs[p].version))]
  /\ UNCHANGED <<parseVars, fixHist, discVars, useVars, tmpFiles, memoVars, ltVars>>

RaceParams(p, outcome) ==
  /\ procs[p].pc = "params"
  /\ procs' = [procs EXCEPT
                 ![p] = ParamsStep(@, outcome, ParHelpOf(procs[p].version))]
  /\ UNCHANGED <<parseVars, fixHist, discVars, useVars, tmpFiles, memoVars, ltVars>>

RaceOpen(p) ==
  /\ procs[p].pc = "write"
  /\ p \notin DOMAIN tmpFiles
  /\ tmpFiles' = atomic_file_write_enter(tmpFiles, p)
  /\ UNCHANGED <<parseVars, fixHist, discVars, useVars, procs, memoVars, ltVars>>

RaceDump(p) ==
  /\ procs[p].pc = "write"
  /\ p \in DOMAIN tmpFiles
  /\ tmpFiles[p] # PickleDump(procs[p].spec)
  /\ LET r == DumpTo(cache, tmpFiles, p, _version_hash(procs[p].version),
                     DumpNext(tmpFiles[p], PickleDump(procs[p].spec)))
     IN cache' = r.files /\ tmpFiles' = r.tmp
  /\ UNCHANGED <<parseVars, fixHist, call, ncalls, persisted, useVars, procs, memoVars, ltVars>>

RaceRename(p) ==
  /\ procs[p].pc = "write"
  /\ p \in DOMAIN tmpFiles
  /\ tmpFiles[p] = PickleDump(procs[p].spec)
  /\ cache' = atomic_file_write_exit(cache, tmpFiles, p,
                                     _version_hash(procs[p].version))
  /\ tmpFiles' = [q \in (DOMAIN tmpFiles) \ {p} |-> tmpFiles[q]]
  /\ procs' = [procs EXCEPT ![p] = WriteStep(@)]
  /\ UNCHANGED <<parseVars, fixHist, call, ncalls, persisted, useVars, memoVars, ltVars>>

InitRace ==
  /\ OptIdle /\ ParIdle /\ FixIdle /\ DiscIdle /\ UseIdle
  /\ MemoIdle /\ LtIdle
  /\ tmpFiles = EmptyDict
  /\ \E gccOf \in [Callers -> Gccs] :
       procs = [p \in Callers |->
                  [CallIdle EXCEPT !.pc = "version", !.gcc = gccOf[p]]]

NextRace ==
  \E p \in Callers :
    \/ \E outcome \in ProcOutcomes, output \in VersionOutputs :
         RaceVersion(p, outcome, output)
    \/ RaceProbe(p)
    \/ \E outcome \in ProcOutcomes : RaceOptimize(p, outcome)
    \/ \E outcome \in ProcOutcomes : RaceParams(p, outcome)
    \/ RaceOpen(p)
    \/ RaceDump(p)
    \/ RaceRename(p)

SpecRace == InitRace /\ [][NextRace]_vars

\* ------------------------------------------------------------------------
\* A Spec in the hands of its user: the size property is read, and an
\* option of the list is indexed.  use is the record
\*   spec   the Spec
\*   size   <<>>, then <<what spec.size gave>>
\*   item   <<>>, then <<i, key, what spec.options[i][key] gave>>
\* ------------------------------------------------------------------------

\* The option lists "_fix_options(optim_opts + param_opts)" can give for
\* help texts of at most kOpt and kPar lines.
FixedLists(kOpt, kPar) == {_fix_options(l) : l \in FixInputs(kOpt, kPar)}

ReadSize ==
  /\ use # <<>>
  /\ use.size = <<>>
  /\ use' = [use EXCEPT !.size = <<GccSpec_size(use.spec)>>]
  /\ UNCHANGED <<parseVars, fixHist, discVars, raceVars, memoVars, ltVars>>

IndexOption(i, key) ==
  /\ use # <<>>
  /\ use.item = <<>>
  /\ i \in 1..Len(use.spec.options)
  /\ use' = [use EXCEPT !.item = <<i, key, GetItem(use.spec.options[i], key)>>]
  /\ UNCHANGED <<parseVars, fixHist, discVars, raceVars, memoVars, ltVars>>

InitUse ==
  /\ OptIdle /\ ParIdle /\ FixIdle /\ DiscIdle /\ RaceIdle
  /\ MemoIdle /\ LtIdle
  /\ \E gcc \in Gccs, options \in FixedLists(MaxFixOptLines, MaxFixParLines) :
       use = [spec |-> GccSpec(gcc, <<"g", "c", "c", "9">>, options),
              size |-> <<>>, item |-> <<>>]

NextUse ==
  \/ ReadSize
  \/ \E i \in 1..(MaxFixOptLines + MaxFixParLines), key \in (-MaxKey)..MaxKey :
       IndexOption(i, key)

SpecUse == InitUse /\ [][NextUse]_vars

\* ------------------------------------------------------------------------
\* Constructions of executors in one process.  get_docker_client and
\* pull_docker_image are wrapped in functools.lru_cache: a table of at most
\* Maxsize results in order of use, the least recently used first; a call
\* whose key is in the table returns the stored result and becomes the most
\* recently used, any other call runs the function and stores what it
\* returns, evicting the least recently used result of a full table; a call
\* that raises stores nothing.  Whether the docker daemon answers, and
\* whether the registry serves the image, are inputs.  memo is the record
\*   client     the table of get_docker_client (its only key is ())
\*   images     the table of pull_docker_image: the images, in order of use
\*   from_env   number of handles docker.from_env has returned
\*   pulls      image -> number of pulls client.images.pull has completed
\*   n          number of constructions
\*   last       <<bin, self.call or the exception raised>> of the last one
\* The discovery call that ends a construction is the specification Spec;
\* it reads and writes none of these tables.
\* ------------------------------------------------------------------------

Images == { <<"gcc:", ToString(i)>> : i \in 1..(Maxsize + 1) }

Bins == { <<"/usr/bin/gcc">> } \cup { <<"docker:">> \o image : image \in Images }

DockerOutcomes == {"ok", "DockerException"}

InTable(table, key) == \E i \in 1..Len(table) : table[i] = key

\* A hit moves the key to the most recently used end.
LruHit(table, key) ==
  SelectSeq(table, LAMBDA k : k # key) \o <<key>>

\* A miss stores the key, and evicts the least recently used of a full table.
LruStore(table, key) ==
  IF Len(table) >= Maxsize THEN Append(Tail(table), key)
  ELSE Append(table, key)

get_docker_client(m, env) ==
  IF InTable(m.client, <<>>)
    THEN [m |-> [m EXCEPT !.client = LruHit(@, <<>>)], r |-> Value("client")]
  ELSE IF env = "ok"
    THEN [m |-> [m EXCEPT !.client = LruStore(@, <<>>), !.from_env = @ + 1],
          r |-> Value("client")]
  ELSE [m |-> m, r |-> Raised("EnvironmentNotSupported")]

pull_docker_image(m, image, env, pull) ==
  IF InTable(m.images, image)
    THEN [m |-> [m EXCEPT !.images = LruHit(@, image)], r |-> Value(image)]
  ELSE LET c == get_docker_client(m, env)
       IN IF c.r.exc # "none" THEN c
          ELSE IF pull = "ok"
            THEN [m |-> [c.m EXCEPT !.images = LruStore(@, image),
                                    !.pulls[image] = @ + 1],
                  r |-> Value(image)]
          ELSE [m |-> c.m, r |-> Raised("ServiceInitError")]

\* Gcc.__init__ up to the discovery call.
Gcc__init__(m, bin, env, pull) ==
  LET image == Tail(bin)
      p == IF IsDocker(bin) THEN pull_docker_image(m, image, env, pull)
           ELSE [m |-> m, r |-> Value(image)]
      how == IF p.r.exc # "none" THEN p.r.exc
             ELSE IF IsDocker(bin) THEN "_docker_run"
             ELSE "_subprocess_run"
  IN [p.m EXCEPT !.n = @ + 1, !.last = <<bin, how>>]

MemoInit ==
  [client |-> <<>>, images |-> <<>>, from_env |-> 0,
   pulls |-> [image \in Images |-> 0], n |-> 0, last |-> <<>>]

Construct(bin, env, pull) ==
  /\ memo # <<>>
  /\ memo.n < Maxsize + MaxRepeats
  /\ memo' = Gcc__init__(memo, bin, env, pull)
  /\ UNCHANGED <<parseVars, fixHist, discVars, useVars, raceVars, ltVars>>

InitCtor ==
  /\ OptIdle /\ ParIdle /\ FixIdle /\ DiscIdle /\ UseIdle /\ RaceIdle
  /\ LtIdle
  /\ memo = MemoInit

NextCtor ==
  \E bin \in Bins, env \in DockerOutcomes, pull \in DockerOutcomes :
    Construct(bin, env, pull)

SpecCtor == InitCtor /\ [][NextCtor]_vars

\* ------------------------------------------------------------------------
\* The loop_tool compilation session.  session is the record
\*   size     self.size
\*   order    self.order: the loops, outermost first, each <<size, tail>>
\*   thread   self.thread: a flag per loop; "1" and "0" are the integers
\*            the constructor stores, "True" and "False" what "not" gives
\*   cursor   self.cursor, counted from 0
\*   mode     self.mode
\*   last     <<>>, then <<action index, exception raised or "none">> of
\*            the last apply_action
\* ------------------------------------------------------------------------

\* action_spaces[0].action
Actions == <<"toggle_mode", "up", "down", "toggle_thread">>

\* "int(benchmark.uri.split('/')[-1])"
SizeOfUri(uri) == IntOf(uri[Len(uri)])

BenchmarkUris ==
  { <<"benchmark:", "", "loop_tool-v0", ToString(n)>> : n \in 0..MaxSize }

\* LoopToolCompilationSession.__init__
SessionInit(uri) ==
  [size |-> SizeOfUri(uri),
   order |-> << <<SizeOfUri(uri), 0>>, <<1, 0>>, <<1, 0>> >>,
   thread |-> <<"1", "0", "0">>,
   cursor |-> 0,
   mode |-> "size",
   last |-> <<>>]

lam(v, x) == v * x[1] + x[2]

\* "reduce(lam, order, v)"
RECURSIVE reduce(_, _)
reduce(order, v) ==
  IF order = <<>> THEN v ELSE reduce(Tail(order), lam(v, Head(order)))

\* The write-back as it would be if the remainder became the tail of the
\* loop under the cursor.
WriteBack_tail_on_cursor(order, cursor, a_, b_, x1) ==
  [order EXCEPT ![cursor] = <<a_, 0>>, ![cursor + 1] = <<x1, b_>>]

\* "self.order[self.cursor - 1] = (a_, b_);
\*  self.order[self.cursor] = (x + increment, 0)"
WriteBack(order, cursor, a_, b_, x1) ==
  [order EXCEPT ![cursor] = <<a_, b_>>, ![cursor + 1] = <<x1, 0>>]

\* resize: the order it leaves, and whether its assertion failed.
resize(s, increment) ==
  IF s.cursor = 0 THEN [order |-> s.order, exc |-> "none"]
  ELSE LET parent_size == s.order[s.cursor]
           a == parent_size[1]
           b == parent_size[2]
           sz == s.order[s.cursor + 1]
           x == sz[1]
           y == sz[2]
           k == reduce(SubSeq(s.order, s.cursor + 2, Len(s.order)), 1)
           inc == IF increment = -1 /\ y # 0 THEN 0 ELSE increment
       IN IF x + inc < 1 THEN [order |-> s.order, exc |-> "none"]
          ELSE LET n == a * x * k + b
                   d == (x + inc) * k
                   a_ == n \div d
                   b_ == n % d
                   order1 == WriteBack(s.order, s.cursor, a_, b_, x + inc)
                   end_size == reduce(order1, 1)
               IN [order |-> order1,
                   exc |-> IF end_size = s.size THEN "none"
                           ELSE "AssertionError"]

\* "not self.thread[self.cursor]"
Not(flag) == IF flag \in {"1", "True"} THEN "False" ELSE "True"

\* The cursor move as it would be if it stopped at the ends.
SelectMove_stopping(s, step) ==
  LET c == s.cursor + step
  IN [s EXCEPT !.cursor = IF c < 0 THEN 0
                          ELSE IF c >= Len(s.order) THEN Len(s.order) - 1
                          ELSE c]

\* "next_cursor = (self.cursor + step) % len(self.order)"
SelectMove(s, step) ==
  [s EXCEPT !.cursor = (s.cursor + step) % Len(s.order)]

\* "self.resize(increment)" in apply_action
SizeMove(s, increment) ==
  LET r == resize(s, increment)
  IN [s EXCEPT !.order = r.order, !.last = <<s.last[1], r.exc>>]

\* apply_action from the lookup of the action name on; s.last holds the
\* action index.
ApplyNamed(s, act) ==
  IF s.mode \notin {"size", "select"}
    THEN [s EXCEPT !.last = <<s.last[1], "RuntimeError">>]
  ELSE CASE act = "toggle_mode" ->
              [s EXCEPT !.mode = IF s.mode = "size" THEN "select" ELSE "size"]
         [] act = "toggle_thread" ->
              [s EXCEPT !.thread[s.cursor + 1] = Not(@)]
         [] act = "down" ->
              IF s.mode = "size" THEN SizeMove(s, -1) ELSE SelectMove(s, -1)
         [] act = "up" ->
              IF s.mode = "size" THEN SizeMove(s, 1) ELSE SelectMove(s, 1)

apply_action(s, action) ==
  IF action < 0 \/ action > Len(Actions)
    THEN [s EXCEPT !.last = <<action, "ValueError">>]
  ELSE IF action + 1 \notin DOMAIN Actions
    THEN [s EXCEPT !.last = <<action, "IndexError">>]
  ELSE ApplyNamed([s EXCEPT !.last = <<action, "none">>], Actions[action + 1])

Extents(order) == {order[i][1] : i \in DOMAIN order}

ApplyAction(action) ==
  /\ session # <<>>
  /\ \A e \in Extents(apply_action(session, action).order) : e <= MaxExtent
  /\ session' = apply_action(session, action)
  /\ UNCHANGED <<parseVars, fixHist, discVars, useVars, raceVars, memoVars>>

InitLt ==
  /\ OptIdle /\ ParIdle /\ FixIdle /\ DiscIdle /\ UseIdle /\ RaceIdle
  /\ MemoIdle
  /\ \E uri \in BenchmarkUris : session = SessionInit(uri)

NextLt == \E action \in (-1)..MaxAction : ApplyAction(action)

SpecLt == InitLt /\ [][NextLt]_vars




\* ------------------------------------------------------------------------
\* Properties of the optimization-flag parser (SpecOpt).
\* ------------------------------------------------------------------------

\* The shape under which the i-th consumed line was sighted.
OptShapeAt(i) == IF optIn[i] = <<>> THEN "blank" ELSE OptShape(optIn[i][1])

OptNameAt(i) == IF optIn[i] = <<>> THEN <<>> ELSE OptName(optIn[i][1])

OptSeenNames == {OptNameAt(i) : i \in 1..Len(optIn)}

SightedAsBoolean(name) ==
  \E i \in 1..Len(optIn) : OptShapeAt(i) = "flag" /\ OptNameAt(i) = name

SightedAsSpecialized(name) ==
  \E i \in 1..Len(optIn) :
    OptShapeAt(i) \in {"enum", "interval", "number"} /\ OptNameAt(i) = name

SpecializedKinds == {"GccFlagEnumOption", "GccFlagIntOption", "GccFlagAlignOption"}

FooBoolLine == << <<"-f", "foo">>, <<"[enabled]">> >>

FooEnumLine == << <<"-f", "foo", "=[", "a", "|", "b", "]">> >>

FooEnumOnly ==
  [n \in {<<"foo">>} |-> GccFlagEnumOption(<<"foo">>, << <<"a">>, <<"b">> >>)]

\* C1: a name sighted both as a boolean flag and as an enum, interval or
\* unbounded-numeric flag, in either order, is stored under a specialized
\* variant (-ffoo and -ffoo=[a|b] give the single entry EnumFlag foo [a,b]),
\* and a boolean sighting of a name that has an entry changes nothing.
C1_SpecializedSupersedes ==
  /\ [](\A name \in OptSeenNames :
          SightedAsBoolean(name) /\ SightedAsSpecialized(name)
            => /\ name \in DOMAIN optSt.options
               /\ optSt.options[name].kind \in SpecializedKinds)
  /\ [](optIn \in {<<FooBoolLine, FooEnumLine>>, <<FooEnumLine, FooBoolLine>>}
          => optSt.options = FooEnumOnly /\ optSt.error = "none")
  /\ [][\A line \in OptLines :
          /\ OptLine(line)
          /\ line # <<>>
          /\ OptShape(line[1]) = "flag"
          /\ OptName(line[1]) \in DOMAIN optSt.options
          => optSt'.options = optSt.options]_vars

\* C1 witness: foo was sighted as a boolean and as a specialized flag, the
\* parse has returned, and the entry is the enum.
C1_Witness ==
  /\ optOut # <<>>
  /\ SightedAsBoolean(<<"foo">>)
  /\ SightedAsSpecialized(<<"foo">>)
  /\ optIn[Len(optIn)] = FooBoolLine
  /\ optSt.options[<<"foo">>].kind = "GccFlagEnumOption"

\* The suffixes the consumed -O lines contribute, in the order of the lines.
RECURSIVE ExpectedOValues(_)
ExpectedOValues(lines) ==
  IF lines = <<>> THEN <<>>
  ELSE LET line == Head(lines)
           here == IF line = <<>> THEN <<>>
                   ELSE IF line[1] = <<"-O", "<number>">>
                     THEN << <<"0">>, <<"1">>, <<"2">>, <<"3">> >>
                   ELSE IF Len(line[1]) = 2 /\ line[1][1] = "-O"
                     THEN << <<line[1][2]>> >>
                   ELSE <<>>
       IN here \o ExpectedOValues(Tail(lines))

ONumLine == << <<"-O", "<number>">> >>

OFastLine == << <<"-O", "fast">> >>

\* C4: every -O line adds its suffix(es) to the one option stored under the
\* name "O", no other entry is an optimization-level option, and -O<number>
\* followed by -Ofast returns exactly that option with the values
\* 0,1,2,3,fast, whose index 0 is the literal -O0.
C4_OLevelsMerge ==
  /\ ExpectedOValues(optIn) # <<>>
       => /\ <<"O">> \in DOMAIN optSt.options
          /\ optSt.options[<<"O">>] = GccOOption(ExpectedOValues(optIn))
  /\ \A name \in DOMAIN optSt.options :
       optSt.options[name].kind = "GccOOption" => name = <<"O">>
  /\ optIn = <<ONumLine, OFastLine>> /\ optOut # <<>>
       => /\ optOut[1] =
               <<GccOOption(<< <<"0">>, <<"1">>, <<"2">>, <<"3">>, <<"fast">> >>)>>
          /\ GetItem(optOut[1][1], 0) = <<"-O", "0">>
          /\ OptLen(optOut[1][1]) = 5

C4_Witness == optIn = <<ONumLine, OFastLine>> /\ optOut # <<>>

\* The template of each variant: the literal at a legal index starts with
\* the variant's prefix followed by the option's name.
MatchesTemplate(o, lit) ==
  CASE o.kind = "GccOOption" -> Len(lit) = 2 /\ lit[1] = "-O"
    [] o.kind = "GccFlagOption" ->
         lit = <<"-f">> \o o.name \/ lit = <<"-f", "no-">> \o o.name
    [] o.kind \in {"GccFlagEnumOption", "GccFlagIntOption"} ->
         /\ Len(lit) > Len(o.name) + 2
         /\ SubSeq(lit, 1, Len(o.name) + 2) = <<"-f">> \o o.name \o <<"=">>
    [] o.kind = "GccFlagAlignOption" -> lit = <<"-f">> \o o.name
    [] OTHER ->
         /\ Len(lit) > Len(o.name) + 2
         /\ SubSeq(lit, 1, Len(o.name) + 2) = <<"--param=">> \o o.name \o <<"=">>

\* Cardinality is a count of values, and the literals of the legal indices
\* are pairwise distinct and follow the template.
WellFormedOption(o) ==
  /\ OptLen(o) >= 0
  /\ \A i \in 0..(OptLen(o) - 1) :
       /\ GetItem(o, i) # IndexError
       /\ MatchesTemplate(o, GetItem(o, i))
  /\ \A i, j \in 0..(OptLen(o) - 1) : i # j => GetItem(o, i) # GetItem(o, j)

\* C5: every option the parser returns, and every option the fixup step
\* makes of it, has a cardinality that counts its legal values and maps
\* the indices below the cardinality to pairwise distinct literals of the
\* variant's template.
C5_CardinalityAndLiterals ==
  optOut # <<>> =>
    /\ \A i \in 1..Len(optOut[1]) : WellFormedOption(optOut[1][i])
    /\ \A i \in 1..Len(_fix_options(optOut[1])) :
         WellFormedOption(_fix_options(optOut[1])[i])


\* The line is an enum, interval, unbounded-numeric or alignment sighting
\* of a name whose entry is not a boolean flag.
SpecializedOverNonBoolean(line) ==
  /\ line # <<>>
  /\ OptShape(line[1]) \in {"enum", "interval", "number", "align"}
  /\ OptName(line[1]) \in DOMAIN optSt.options
  /\ optSt.options[OptName(line[1])].kind # "GccFlagOption"

\* C15: a specialized sighting of a name whose entry is not a boolean
\* flag, whatever the cardinality of that entry, ends the parse with an
\* exception and leaves every entry as it was.
C15_NonBooleanOverwriteIsFatal ==
  [][\A line \in OptLines :
       OptLine(line) /\ SpecializedOverNonBoolean(line)
       => optSt'.error # "none" /\ optSt'.options = optSt.options]_vars

\* ------------------------------------------------------------------------
\* Properties of the parameter parser (SpecPar).
\* ------------------------------------------------------------------------

\* The recognized numeric shapes of a parameter line.
IsBoundedLine(line) ==
  Len(line) >= 2 /\ param_interval_pat(line[1]) /\ is_int(line[2])

IsUnboundedLine(line) ==
  Len(line) >= 2 /\ param_number_pat(line[1]) /\ is_int(line[2])

IsLegacyLine(line) == param_old_interval_pat(line)

\* Name, documented default and documented bounds of a numeric line.
NumName(line) ==
  IF IsLegacyLine(line) THEN line[1]
  ELSE IF IsBoundedLine(line) THEN SubSeq(line[1], 2, Len(line[1]) - 5)
  ELSE SubSeq(line[1], 2, Len(line[1]) - 1)

NumDefault(line) ==
  IF IsLegacyLine(line) THEN IntOf(line[3][1]) ELSE IntOf(line[2][1])

NumMin(line) ==
  IF IsLegacyLine(line) THEN IntOf(line[5][1])
  ELSE IntOf(line[1][Len(line[1]) - 3])

NumMax(line) ==
  IF IsLegacyLine(line) THEN IntOf(line[7][1])
  ELSE IntOf(line[1][Len(line[1]) - 1])

HasDocumentedBounds(line) == IsLegacyLine(line) \/ IsBoundedLine(line)

DefaultInDocumentedBounds(line) ==
  NumMin(line) <= NumDefault(line) /\ NumDefault(line) <= NumMax(line)

\* The step recorded nothing, logged one warning and the parse goes on.
DroppedWithWarning ==
  /\ parSt'.options = parSt.options
  /\ parSt'.unknown = parSt.unknown + 1
  /\ parSt'.error = "none"

\* C2: a numeric parameter line of any recognized shape records an integer
\* option only with the documented default inside the recorded [min,max];
\* with the default outside the documented bounds the line is dropped with
\* a warning, nothing is recorded and the parse goes on.
C2_DefaultWithinBounds ==
  [][\A line \in ParLines :
       /\ ParLine(line)
       /\ IsBoundedLine(line) \/ IsUnboundedLine(line) \/ IsLegacyLine(line)
       => /\ parSt'.options # parSt.options
               => /\ parSt'.options[NumName(line)].min <= NumDefault(line)
                  /\ NumDefault(line) <= parSt'.options[NumName(line)].max
          /\ HasDocumentedBounds(line) /\ ~DefaultInDocumentedBounds(line)
               => DroppedWithWarning]_vars

\* C3 as stated: a legacy line records (name, MIN, MAX) exactly when
\* MIN <= D <= MAX, and is otherwise dropped with a warning, the other
\* options staying as they were.
C3_LegacyAsStated ==
  [][\A line \in ParLines :
       ParLine(line) /\ IsLegacyLine(line)
       => IF DefaultInDocumentedBounds(line)
            THEN /\ parSt'.error = "none"
                 /\ parSt'.options =
                      Put(parSt.options, NumName(line),
                          GccParamIntOption(NumName(line), NumMin(line), NumMax(line)))
            ELSE DroppedWithWarning]_vars

\* C3 amended: a legacy line whose name has no entry yet records
\* (name, MIN, MAX) exactly when MIN <= D <= MAX; with D outside the bounds
\* it is dropped with a warning and every recorded option stays as it was;
\* an in-bounds legacy line for a name that already has an entry ends the
\* parse with an assertion failure and records nothing.
C3_LegacyLine ==
  [][\A line \in ParLines :
       ParLine(line) /\ IsLegacyLine(line)
       => IF ~DefaultInDocumentedBounds(line) THEN DroppedWithWarning
          ELSE IF NumName(line) \notin DOMAIN parSt.options
            THEN /\ parSt'.error = "none"
                 /\ parSt'.unknown = parSt.unknown
                 /\ parSt'.options =
                      Put(parSt.options, NumName(line),
                          GccParamIntOption(NumName(line), NumMin(line), NumMax(line)))
            ELSE /\ parSt'.error = "AssertionError"
                 /\ parSt'.options = parSt.options]_vars

LegacyInLine ==
  << <<"max-unroll">>, <<"default">>, <<"5">>, <<"minimum">>, <<"0">>,
     <<"maximum">>, <<"10">> >>

LegacyOutLine ==
  << <<"max-unroll">>, <<"default">>, <<"20">>, <<"minimum">>, <<"0">>,
     <<"maximum">>, <<"10">> >>

\* C3 witness: the out-of-bounds legacy line was dropped with a warning,
\* the in-bounds one recorded (max-unroll, 0, 10), and the parse returned.
C3_Witness ==
  /\ parIn = <<LegacyOutLine, LegacyInLine>>
  /\ parSt.unknown = 1
  /\ parOut = << <<GccParamIntOption(<<"max-unroll">>, 0, 10)>> >>

\* ------------------------------------------------------------------------
\* Properties of both parsers (SpecParse).
\* ------------------------------------------------------------------------

\* The leading token of the line has none of the shapes of the parser.
UnrecognizedOpt(line) == line # <<>> /\ OptShape(line[1]) = "unknown"

UnrecognizedPar(line) ==
  /\ line # <<>>
  /\ ~param_enum_pat(line[1])
  /\ ~param_interval_pat(line[1])
  /\ ~param_number_pat(line[1])
  /\ ~param_old_interval_pat(line)

\* The optimization-flag parser recorded nothing, logged one warning and
\* goes on.
OptDroppedWithWarning ==
  /\ optSt'.options = optSt.options
  /\ optSt'.unknown = optSt.unknown + 1
  /\ optSt'.error = "none"

\* C16 as stated: in either parser a line whose leading token has no
\* recognized shape is skipped with a warning: the collection stays as it
\* was, the parse is not aborted and goes on with the next line.
C16_UnknownLineWarned ==
  [][/\ \A line \in OptLines :
          OptLine(line) /\ UnrecognizedOpt(line) => OptDroppedWithWarning
     /\ \A line \in ParLines :
          ParLine(line) /\ UnrecognizedPar(line) => DroppedWithWarning]_vars

\* C16 amended: such a line leaves the collection as it was and does not
\* abort the parse, which goes on with the next line; a warning is logged
\* for it, except for a line of the parameter listing that consists of a
\* single token, which is skipped without a warning.
C16_UnknownLineSkipped ==
  [][/\ \A line \in OptLines :
          OptLine(line) /\ UnrecognizedOpt(line) => OptDroppedWithWarning
     /\ \A line \in ParLines :
          ParLine(line) /\ UnrecognizedPar(line)
          => IF Len(line) = 1 THEN parSt' = parSt ELSE DroppedWithWarning]_vars

\* C16 witness: the parameter parser skipped a single-token line without
\* a warning and a two-token line with one, then recorded the next line
\* and returned.
C16_Witness ==
  /\ parIn = << << <<"x_y">> >>, << <<"foo">>, <<"bar">> >>, LegacyInLine >>
  /\ parSt.unknown = 1
  /\ parOut = << <<GccParamIntOption(<<"max-unroll">>, 0, 10)>> >>

\* ------------------------------------------------------------------------
\* Properties of the fixup step (SpecFix).
\* ------------------------------------------------------------------------

\* C6: fixing up a list that the fixup step produced returns that list,
\* equal in length, order, names, variants, bounds, values and negation
\* flags.
C6_FixupIdempotent ==
  \A i \in 2..(Len(fixHist) - 1) : fixHist[i + 1] = fixHist[i]

\* C6 witness: a list the first fixup changed has been fixed up again.
C6_Witness ==
  /\ Len(fixHist) >= 3
  /\ fixHist[2] # fixHist[1]
  /\ Len(fixHist[2]) >= 1


\* ------------------------------------------------------------------------
\* Properties of discovery (Spec, SpecDisk).
\* ------------------------------------------------------------------------

CallKey == _version_hash(call.version)

\* The call has ended and had obtained a version.
EndedWithVersion == call.pc = "done" /\ call.version # None

CorruptAtStart ==
  /\ CallKey \in DOMAIN call.cache0
  /\ PickleLoad(call.cache0[CallKey]).exc # "none"

\* C8: a cache file that cannot be deserialized, whatever the failure, does
\* not make discovery raise: one warning is logged, the help listings are
\* requested as on a miss, and a call whose parse gives options returns the
\* non-empty Spec it has written back to the cache.
C8_CorruptCacheIsMiss ==
  EndedWithVersion /\ CorruptAtStart
    => /\ call.warned = 1
       /\ Len(call.invoked) >= 2
       /\ call.parsed # <<>> /\ call.parsed[1] # <<>>
            => /\ call.result = "spec"
               /\ call.spec.options # <<>>
               /\ cache[CallKey] = PickleDump(call.spec)

\* The help texts' options after parse and fixup, <<>> when a parse raised.
Pipeline(ot, pt) ==
  IF ParsedOpt(Tail(ot)) = <<>> \/ ParsedPar(Tail(pt)) = <<>> THEN <<>>
  ELSE <<_fix_options(ParsedOpt(Tail(ot))[1] \o ParsedPar(Tail(pt))[1])>>

FullyParsedAndFixed(options) ==
  \E ot \in OptHelpTexts, pt \in ParHelpTexts : Pipeline(ot, pt) = <<options>>

\* C9: on an initially empty cache no call returns, and no cache file
\* holds, a Spec with an empty option list; a call whose parse and fixup
\* give no option returns no Spec and leaves the cache as it was; every
\* Spec returned or written is the fixed-up parse of both help streams.
C9_NeverEmptySpec ==
  /\ call.result = "spec"
       => call.spec.options # <<>> /\ FullyParsedAndFixed(call.spec.options)
  /\ call.pc = "write"
       => call.spec.options # <<>> /\ FullyParsedAndFixed(call.spec.options)
  /\ \A key \in DOMAIN cache :
       /\ PickleLoad(cache[key]).exc = "none"
       /\ PickleLoad(cache[key]).value.options # <<>>
       /\ FullyParsedAndFixed(PickleLoad(cache[key]).value.options)
  /\ call.pc = "done" /\ call.parsed = << <<>> >>
       => call.result = "None" /\ cache = call.cache0

\* C9 witness: with a Spec in the cache, a call for another version parsed
\* an option that the fixup dropped, returned no Spec and wrote nothing.
C9_Witness ==
  /\ call.pc = "done"
  /\ call.parsed = << <<>> >>
  /\ call.optim # <<>>
  /\ call.result = "None"
  /\ cache # EmptyDict
  /\ cache = call.cache0

\* The version query failed to execute, or its first line lacks "gcc".
VersionQueryFailed ==
  /\ call.vquery # <<>>
  /\ call.vquery[1] # "exit0" \/ ~HasGcc(call.vquery[2][1])

\* C10: a version query that fails, or whose first line lacks the compiler
\* identifier, makes discovery return no Spec without raising, without a
\* help-listing invocation and without touching the cache.
C10_VersionFailureDegrades ==
  call.pc = "done" /\ VersionQueryFailed
    => /\ call.result = "None"
       /\ call.invoked = <<"--version">>
       /\ call.touched = {}

\* The names ascend in the order of Python's string comparison.
SortedByName(options) ==
  \A i \in 1..(Len(options) - 1) :
    Rank(options[i].name) <= Rank(options[i + 1].name)

DistinctNames(options) ==
  \A i, j \in 1..Len(options) : i # j => options[i].name # options[j].name

\* C12: the option list of every Spec that discovery writes or returns is
\* sorted by option name and holds no two options of the same name.
C12_SortedAndDeduplicated ==
  call.pc = "write" \/ call.result = "spec"
    => SortedByName(call.spec.options) /\ DistinctNames(call.spec.options)

\* C17: a cache file holds the class tag, the version and the option list
\* and nothing else, and it is the file the write would have given with
\* any other executor.
C17_ExecutorNotPersisted ==
  \A key \in DOMAIN cache :
    /\ Len(cache[key]) = 3
    /\ \A gcc \in Gccs :
         cache[key] = PickleDump([persisted[key] EXCEPT !.gcc = gcc])

\* C18: the Spec a call is about to write, and every Spec a call returns,
\* parsed or read from the cache, is bound to the executor the call was
\* made with.
C18_BoundToCallersExecutor ==
  call.pc = "write" \/ call.result = "spec" => call.spec.gcc = call.gcc

\* C18 witness: a call returned a Spec read from a cache file that was
\* written under another executor, whose pickle the file still holds.
C18_Witness ==
  /\ call.result = "spec"
  /\ "read" \in call.touched
  /\ PickleLoad(cache[CallKey]).value.gcc # call.gcc
  /\ call.spec.gcc = call.gcc

\* The step is an executor invocation of the call that outlived its
\* timeout.
TimedOutInvocation ==
  \/ \E output \in VersionOutputs : GetVersion("timeout", output)
  \/ \E output \in OptHelpTexts : ParseOptimize("timeout", output)
  \/ \E output \in ParHelpTexts : ParseParams("timeout", output)

\* C19: an invocation that outlives its timeout fails with TimeoutError on
\* either backend, and the discovery call it belongs to ends by raising
\* that failure to its caller, the cache staying as it was.
C19_TimeoutIsDistinctFailure ==
  [][TimedOutInvocation
       => /\ call'.pc = "done"
          /\ call'.result = "raise"
          /\ call'.exc = "TimeoutError"
          /\ cache' = cache]_vars

IsPrefix(s, t) == Len(s) <= Len(t) /\ SubSeq(t, 1, Len(s)) = s

InvocationOrder == <<"--version", "--help=optimize", "--help=param">>

\* The call ended on a Spec it read from the cache.
SuccessfulHit ==
  call.result = "spec" /\ "read" \in call.touched /\ "write" \notin call.touched

\* C14: the invocations of one call are issued one per step in the order
\* version query, optimization listing, parameter listing; a help listing
\* is requested only after the version query returned a version with the
\* compiler identifier; a call that ends on a cache hit issued the version
\* query and nothing else.
C14_InvocationOrder ==
  /\ [](IsPrefix(call.invoked, InvocationOrder))
  /\ [](Len(call.invoked) >= 2
          => /\ call.vquery[1] = "exit0"
             /\ call.version = call.vquery[2][1]
             /\ HasGcc(call.version))
  /\ [](SuccessfulHit => call.invoked = <<"--version">>)
  /\ [][\/ call'.invoked = call.invoked
        \/ call'.invoked = <<>>
        \/ /\ Len(call'.invoked) = Len(call.invoked) + 1
           /\ call.pc = <<"version", "optimize", "params">>[Len(call'.invoked)]]_vars

\* C14 witness: after a call that issued all three invocations and wrote
\* the cache, a second call hit the cache with the version query alone.
C14_Witness ==
  /\ ncalls = 2
  /\ SuccessfulHit
  /\ call.invoked = <<"--version">>
  /\ call.cache0 # EmptyDict

\* ------------------------------------------------------------------------
\* Properties of a Spec in use (SpecUse).
\* ------------------------------------------------------------------------

\* The product of cardinality + 1 over the first n options.
RECURSIVE ProductUpTo(_, _)
ProductUpTo(options, n) ==
  IF n = 0 THEN 1
  ELSE ProductUpTo(options, n - 1) * (OptLen(options[n]) + 1)

\* C11: reading the size of a Spec gives the product over its options of
\* cardinality + 1, and 1 for an empty option list; the read never fails.
C11_SizeIsProduct ==
  use # <<>> /\ use.size # <<>>
    => /\ use.size[1].exc = "none"
       /\ use.size[1].value = ProductUpTo(use.spec.options, Len(use.spec.options))
       /\ use.spec.options = <<>> => use.size[1].value = 1
\* ------------------------------------------------------------------------
\* Properties of concurrent discovery (SpecRace).
\* ------------------------------------------------------------------------

HasRead(p) == "read" \in procs[p].touched

HasWritten(p) == "write" \in procs[p].touched

AllDone == \A p \in Callers : procs[p].pc = "done"

\* C13: with several callers on the shared cache, the cache file of a
\* version is at every moment one complete Spec; a caller that found the
\* file read the complete Spec of its version, without a warning, and
\* returned it; once all callers have ended the file holds the version and
\* the option list that each writer produced.
C13_AtomicCacheWrites ==
  /\ \A key \in DOMAIN cache : PickleLoad(cache[key]).exc = "none"
  /\ \A p \in Callers :
       HasRead(p)
         => /\ procs[p].warned = 0
            /\ procs[p].result = "spec"
            /\ procs[p].spec.version = procs[p].version
            /\ <<procs[p].spec.options>> =
                 Pipeline(OptHelpOf(procs[p].version), ParHelpOf(procs[p].version))
  /\ AllDone
       => \A p \in Callers :
            HasWritten(p)
              => LET key == _version_hash(procs[p].version)
                 IN /\ key \in DOMAIN cache
                    /\ PickleLoad(cache[key]).value.version = procs[p].spec.version
                    /\ PickleLoad(cache[key]).value.options = procs[p].spec.options

\* C13 witness: two callers with different executors both missed, both
\* wrote the file of the version, and all callers have ended.
C13_Witness ==
  /\ AllDone
  /\ \E p, q \in Callers :
       /\ HasWritten(p) /\ HasWritten(q)
       /\ procs[p].gcc # procs[q].gcc
       /\ ~HasRead(p) /\ ~HasRead(q)
       /\ Len(procs[p].spec.options) >= 2
\* C20: indexing an option gives a literal for the indices from 0 up to
\* its cardinality, the cardinality excluded, and for no other index.
C20_IndexDomain ==
  use # <<>> /\ use.item # <<>>
    => LET o == use.spec.options[use.item[1]]
           key == use.item[2]
       IN (0 <= key /\ key < OptLen(o)) <=> (use.item[3] # IndexError)

\* ------------------------------------------------------------------------
\* C21.  Over any sequence of constructions in one process every image is
\* pulled at most once and the container-runtime handle is acquired at most
\* once.
\* ------------------------------------------------------------------------

C21_SetupAtMostOnce ==
  memo # <<>> =>
    /\ memo.from_env <= 1
    /\ \A image \in Images : memo.pulls[image] <= 1

\* ------------------------------------------------------------------------
\* C22.  After the fixup step no option of the list is named live-patching,
\* whichever variant it is; the options whose names the fixup step does not
\* mention come out unchanged and in their original relative order.
\* ------------------------------------------------------------------------

DropNames == { <<"live-patching">> }

CorrectionNames ==
  DropNames \cup
  { <<"logical-op-non-short-circuit">>, <<"prefetch-minimum-stride">>,
    <<"sched-autopref-queue-depth">>, <<"vect-max-peeling-for-alignment">>,
    <<"handle-", "exceptions">>, <<"stack-protector-all">>,
    <<"stack-protector-explicit">>, <<"stack-protector-strong">>,
    <<"no-", "threadsafe-statics">>, <<"pack-struct">> }

Unnamed(options) == SelectSeq(options, LAMBDA o : o.name \notin CorrectionNames)

\* s occurs in t, in order.
RECURSIVE IsSubsequence(_, _)
IsSubsequence(s, t) ==
  IF s = <<>> THEN TRUE
  ELSE IF t = <<>> THEN FALSE
  ELSE IF Head(s) = Head(t) THEN IsSubsequence(Tail(s), Tail(t))
  ELSE IsSubsequence(s, Tail(t))

NoDroppedName(options) ==
  \A i \in 1..Len(options) : options[i].name \notin DropNames

UnnamedPreserved ==
  \A i \in 1..(Len(fixHist) - 1) :
    IsSubsequence(Unnamed(fixHist[i]), fixHist[i + 1])

C22_DropTableObeyed ==
  /\ \A i \in 2..Len(fixHist) : NoDroppedName(fixHist[i])
  /\ UnnamedPreserved

\* ------------------------------------------------------------------------
\* Properties of the loop_tool session (SpecLt).
\* ------------------------------------------------------------------------

\* C23: the assertion of resize never fails, whatever the benchmark size
\* and the actions: the fold of the loop order from 1 is the benchmark size.
C23_ResizeKeepsSize ==
  session # <<>> =>
    /\ reduce(session.order, 1) = session.size
    /\ session.last # <<>> => session.last[2] # "AssertionError"

\* C24: the innermost loop never has a tail; a resize gives a non-zero tail
\* to the parent of the loop under the cursor only, and leaves the loop
\* under the cursor without a tail.
TailsOnlyOnParent ==
  session.order' # session.order =>
    /\ session'.order[session.cursor + 1][2] = 0
    /\ \A j \in DOMAIN session.order :
         (session'.order[j] # session.order[j] /\ session'.order[j][2] # 0)
           => j = session.cursor

C24_InnermostHasNoTail ==
  /\ [](session # <<>> => session.order[Len(session.order)][2] = 0)
  /\ [][TailsOnlyOnParent]_vars

\* C24 witness: a resize of the innermost loop has left a tail on its
\* parent.
C24_Witness ==
  /\ session # <<>>
  /\ session.mode = "size"
  /\ session.cursor = Len(session.order) - 1
  /\ session.last # <<>>
  /\ session.last[1] + 1 \in DOMAIN Actions
  /\ Actions[session.last[1] + 1] = "up"
  /\ session.order[session.cursor][2] # 0
  /\ session.order[session.cursor + 1] = <<2, 0>>

\* C25: the cursor stays within the loops; in select mode "up" and "down"
\* move it by one, wrapping around at both ends, and change neither the
\* loop order nor the thread flags; in size mode they leave the cursor
\* where it is, and with the cursor on the outermost loop they leave the
\* loop order as it is.
CursorStep ==
  LET a == session'.last[1]
      n == Len(session.order)
      c == session.cursor
  IN (a + 1 \in DOMAIN Actions /\ Actions[a + 1] \in {"up", "down"}) =>
       IF session.mode = "select"
         THEN /\ session'.cursor =
                   IF Actions[a + 1] = "up"
                     THEN (IF c = n - 1 THEN 0 ELSE c + 1)
                     ELSE (IF c = 0 THEN n - 1 ELSE c - 1)
              /\ session'.order = session.order
              /\ session'.thread = session.thread
         ELSE /\ session'.cursor = c
              /\ c = 0 => session'.order = session.order

C25_CursorInRange ==
  /\ [](session # <<>> => session.cursor \in 0..(Len(session.order) - 1))
  /\ [][CursorStep]_vars

\* C25 witness: in select mode "down" has taken the cursor from the
\* outermost loop to the innermost, in a session whose loop order and
\* thread flags are no longer the initial ones.
C25_Witness ==
  /\ session # <<>>
  /\ session.mode = "select"
  /\ session.last = <<2, "none">>
  /\ session.cursor = Len(session.order) - 1
  /\ session.order[1] # <<session.size, 0>>
  /\ session.thread[1] = "False"

\* C26: apply_action with an index that is no index of the action list
\* raises the ValueError "Out-of-range" and leaves mode, cursor, loop order
\* and thread flags as they were; an index of the action list is accepted.
IndexStep ==
  LET a == session'.last[1]
  IN IF a \in 0..(Len(Actions) - 1)
       THEN session'.last[2] \notin {"ValueError", "IndexError"}
       ELSE /\ session'.last[2] = "ValueError"
            /\ session'.mode = session.mode
            /\ session'.cursor = session.cursor
            /\ session'.order = session.order
            /\ session'.thread = session.thread

C26_OutOfRangeRejected == [][IndexStep]_vars

\* ------------------------------------------------------------------------
\* C27.  A Spec returned by a discovery call carries the version string
\* the executor of that call reported.
\* ------------------------------------------------------------------------

C27_VersionMatches ==
  call.result = "spec" => call.spec.version = call.version

\* C27 as amended: a Spec written by the call carries the version string
\* its executor reported; a Spec read from the cache carries a version
\* string with the same polynomial hash as the reported one; and every
\* cache entry holds a version string whose hash is the entry's key.
C27_SameKeyOnly ==
  /\ call.result = "spec" =>
       /\ HashFrom(0, call.spec.version) = HashFrom(0, call.version)
       /\ "write" \in call.touched => call.spec.version = call.version
  /\ \A key \in DOMAIN persisted :
       ToString(HashFrom(0, persisted[key].version)) = key

\* C27 witness: a call whose executor reported "gccBB" has returned the
\* Spec that an earlier call wrote for "gccAa".
C27_Witness ==
  /\ call.result = "spec"
  /\ call.version = <<"g", "c", "c", "B", "B">>
  /\ call.spec.version = <<"g", "c", "c", "A", "a">>
  /\ "read" \in call.touched
  /\ "write" \notin call.touched

====
